---- MODULE Spec2Model ----
(***************************************************************************)
(* Model of the Notion-to-HTML sync script (src/unnamed/part_001):         *)
(* the image cache resolver downloadImage and the block tree renderer      *)
(* blocksToHtml.                                                           *)
(*                                                                         *)
(* Text is a sequence of one-character strings; markup that the code       *)
(* writes as a literal of a template is one element of such a sequence.    *)
(***************************************************************************)
EXTENDS Integers, Sequences, FiniteSets, TLC

VARIABLES
    fs,             \* the images directory: filename -> content of the file
    unlinks,        \* fs.unlink requests queued on the thread pool, not yet run
    dl,             \* the downloadImage call chain in progress (one promise)
    netCalls,       \* number of https.get requests issued so far
    ncalls,         \* number of top-level downloadImage calls a client has made
    last,           \* locator, slug and filename of the last collected call that was not redirected
    page,           \* the page being synced: its top-level blocks and its slug
    stack,          \* the activations of blocksToHtml, the outermost first
    rphase,         \* "idle", "running", "done" or "failed": the render of the page
    run,            \* the render in progress: its number, netCalls at its start, its image fallbacks
    prev,           \* the fragment and the image fallbacks of the render before this one
    out,            \* the fragment the last completed render returned
    dir,            \* the thoughts directory: name -> what is there under that name
    sync,           \* the run of main: where it is, its posts, the files it has generated
    listing         \* the paginated fetch in progress: its requests and the responses to them

clientVars == <<ncalls, last>>

renderVars == <<page, stack, rphase, run, prev, out>>

syncVars == <<dir, sync, listing>>

vars == <<fs, unlinks, dl, netCalls, ncalls, last, page, stack, rphase, run, prev, out,
          dir, sync, listing>>

-----------------------------------------------------------------------------
(* Bounds of the model *)

\* number of top-level downloadImage calls of one behaviour of SpecResolve
MaxCalls == 2

\* hex digits kept of the digest (the code keeps 12; 32-bit arithmetic here)
HashHexLen == 3

\* number of times the page is rendered in one behaviour of Spec
MaxRenders == 2

\* longest page of list items and paragraphs
MaxListBlocks == 4

\* most images of a page
MaxImageBlocks == 1

\* longest page of tables and dividers
MaxTableBlocks == 2

\* longest page of quotes, callouts, to-dos, toggles, columns and synced blocks
MaxContainerBlocks == 2

\* most spans of a rich text
MaxSpans == 2

\* longest page of blocks without children
MaxLeafBlocks == 3

\* longest page of the renders whose termination is checked
MaxLoopBlocks == 2

\* most results in one response of the paginated list
MaxPageSize == 2

-----------------------------------------------------------------------------
(* Strings *)

Alphabet == <<"/", ".", "?", "i", "j", "k", "p", "n", "g", "s", "t", "J", "P", "G">>

Code(c) == CHOOSE n \in 1..Len(Alphabet) : Alphabet[n] = c

IndexOf(s, c) ==
    IF \E n \in 1..Len(s) : s[n] = c
    THEN CHOOSE n \in 1..Len(s) : s[n] = c /\ \A m \in 1..(n - 1) : s[m] # c
    ELSE 0

LastIndexOf(s, c) ==
    IF \E n \in 1..Len(s) : s[n] = c
    THEN CHOOSE n \in 1..Len(s) : s[n] = c /\ \A m \in (n + 1)..Len(s) : s[m] # c
    ELSE 0

\* String.prototype.split(sep)[0]: the part before the first separator
SplitFirst(s, sep) ==
    IF IndexOf(s, sep) = 0 THEN s ELSE SubSeq(s, 1, IndexOf(s, sep) - 1)

\* String.prototype.toLowerCase
LowerChar(c) ==
    CASE c = "J" -> "j"
      [] c = "A" -> "a"
      [] c = "B" -> "b"
      [] c = "I" -> "i"
      [] c = "U" -> "u"
      [] c = "P" -> "p"
      [] c = "G" -> "g"
      [] OTHER -> c

ToLowerCase(s) == [n \in 1..Len(s) |-> LowerChar(s[n])]

\* path.basename part used by path.extname: what follows the last "/"
Basename(s) == SubSeq(s, LastIndexOf(s, "/") + 1, Len(s))

\* path.extname: from the last "." of the basename to its end; empty when there
\* is none, or when the basename starts with its only "." (a dot file)
Extname(s) ==
    LET b == Basename(s)
        d == LastIndexOf(b, ".")
    IN  IF d = 0 \/ d = 1 THEN <<>> ELSE SubSeq(b, d, Len(b))

RECURSIVE Pow16(_)
Pow16(n) == IF n = 0 THEN 1 ELSE 16 * Pow16(n - 1)

RECURSIVE Digest(_)
\* crypto.createHash('md5').update(s).digest(): a deterministic digest of the
\* characters of s, of fixed width
Digest(s) ==
    IF s = <<>> THEN 7
    ELSE (Digest(SubSeq(s, 1, Len(s) - 1)) * 31 + Code(s[Len(s)])) % Pow16(HashHexLen)

HexChars == <<"0", "1", "2", "3", "4", "5", "6", "7", "8", "9", "a", "b", "c", "d", "e", "f">>

RECURSIVE Hex(_, _)
\* .digest('hex').slice(0, n): n hex digits, most significant first
Hex(v, n) ==
    IF n = 0 THEN <<>>
    ELSE Append(Hex(v \div 16, n - 1), HexChars[(v % 16) + 1])

-----------------------------------------------------------------------------
(* Sequences of texts *)

RECURSIVE Join(_, _)
\* Array.prototype.join(sep): the texts of parts with sep between neighbours
Join(parts, sep) ==
    IF parts = <<>> THEN <<>>
    ELSE IF Len(parts) = 1 THEN parts[1]
    ELSE parts[1] \o sep \o Join(Tail(parts), sep)

RECURSIVE ReplaceAll(_, _, _)
\* String.prototype.replace(/c/g, rep) for a one-character pattern
ReplaceAll(s, c, rep) ==
    IF s = <<>> THEN <<>>
    ELSE (IF Head(s) = c THEN rep ELSE <<Head(s)>>) \o ReplaceAll(Tail(s), c, rep)

\* how many elements of s equal c
Count(s, c) == Cardinality({ p \in 1..Len(s) : s[p] = c })

-----------------------------------------------------------------------------
(* The remote side: image locators and what the server answers *)

\* two signed URLs of one stored file, and a plain and a signed URL of another
Locators ==
    { <<"/", "i", ".", "J", "P", "G", "?", "s">>,
      <<"/", "i", ".", "J", "P", "G", "?", "t">>,
      <<"/", "j">>,
      <<"/", "j", "?", "s">> }

Slugs == { "alpha", "beta" }

\* statuses other than 200, 301 and 302 that the server may answer
OtherStatuses == { 404 }

\* content of a file of the images directory
EmptyFile == [bytes |-> "empty", of |-> <<>>]
PartialFile(u) == [bytes |-> "partial", of |-> u]
CompleteFile(u) == [bytes |-> "complete", of |-> u]

-----------------------------------------------------------------------------
(* downloadImage: the cache key *)

\* the stable part of the URL: what precedes the first "?"
UrlPath(imageUrl) == SplitFirst(imageUrl, "?")

\* a digest of the whole URL, query string included
UrlHashOfWholeUrl(imageUrl) == Hex(Digest(imageUrl), HashHexLen)

UrlHash(imageUrl) == Hex(Digest(UrlPath(imageUrl)), HashHexLen)

Ext(imageUrl) ==
    LET e == ToLowerCase(Extname(UrlPath(imageUrl)))
        e1 == IF e = <<>> THEN <<".", "p", "n", "g">> ELSE e
    IN  IF Len(e1) > 5 THEN <<".", "p", "n", "g">> ELSE e1

Filename(imageUrl, slug) == <<slug, "-">> \o UrlHash(imageUrl) \o Ext(imageUrl)

RelativePath(imageUrl, slug) == <<"images/">> \o Filename(imageUrl, slug)

\* a cache check that takes only a complete file for an entry
ExistsOnlyComplete(filename) == filename \in DOMAIN fs /\ fs[filename].bytes = "complete"

\* a cache check that never finds the file
ExistsNever(filename) == FALSE

\* fs.existsSync(filepath)
ExistsSync(filename) == filename \in DOMAIN fs

-----------------------------------------------------------------------------
(* downloadImage: one promise, from the call to its settling *)

NoCall ==
    [pc |-> "idle", url |-> <<>>, slug |-> "", first |-> <<>>, hops |-> 0,
     had |-> {}, filename |-> <<>>, path |-> <<>>, skipped |-> FALSE, err |-> "", status |-> 0,
     downloads |-> 0]

\* The synchronous part of one invocation: the cache key, the cache check, and
\* on a miss the write stream (which creates the file) and the request.
\* first, hops, had and downloads describe the chain of redirects the invocation
\* belongs to: its first URL, the redirects followed, the files that existed when
\* the chain started, and the bodies it has stored.  The path resolved with is
\* the relativePath of the invocation that resolves.
DownloadImage(imageUrl, slug, first, hops, had, downloads) ==
    LET filename == Filename(imageUrl, slug)
        relativePath == RelativePath(imageUrl, slug)
        d == [NoCall EXCEPT !.url = imageUrl, !.slug = slug, !.first = first,
                            !.hops = hops, !.had = had, !.downloads = downloads,
                            !.filename = filename]
    IN  /\ IF ExistsSync(filename)
           THEN /\ dl' = [d EXCEPT !.pc = "resolved", !.skipped = TRUE,
                                   !.path = relativePath]
                /\ UNCHANGED <<fs, netCalls>>
           ELSE /\ fs' = (filename :> EmptyFile) @@ fs
                /\ netCalls' = netCalls + 1
                /\ dl' = [d EXCEPT !.pc = "waiting"]
        /\ UNCHANGED unlinks

\* response 301 or 302 with a Location header
Redirect(location) ==
    /\ dl.pc = "waiting"
    /\ DownloadImage(location, dl.slug, dl.first, dl.hops + 1, dl.had, dl.downloads)
    /\ UNCHANGED <<clientVars, syncVars, renderVars>>

\* response 301 or 302 without a Location header: the inner call throws on
\* undefined.split before it computes anything, and the outer promise rejects
RedirectNoLocation ==
    /\ dl.pc = "waiting"
    /\ dl' = [dl EXCEPT !.pc = "rejected", !.err = "TypeError"]
    /\ UNCHANGED <<fs, unlinks, netCalls, clientVars, syncVars, renderVars>>

\* response with any other status than 200
StatusOther(code) ==
    /\ dl.pc = "waiting"
    /\ dl' = [dl EXCEPT !.pc = "rejected", !.err = "status", !.status = code]
    /\ UNCHANGED <<fs, unlinks, netCalls, clientVars, syncVars, renderVars>>

\* response 200: the body is piped to the write stream
Status200 ==
    /\ dl.pc = "waiting"
    /\ dl' = [dl EXCEPT !.pc = "piping"]
    /\ UNCHANGED <<fs, unlinks, netCalls, clientVars, syncVars, renderVars>>

\* a first part of the body reaches the file
PipeChunk ==
    /\ dl.pc = "piping"
    /\ dl.filename \in DOMAIN fs
    /\ fs[dl.filename].bytes = "empty"
    /\ fs' = [fs EXCEPT ![dl.filename] = PartialFile(dl.url)]
    /\ UNCHANGED <<unlinks, dl, netCalls, clientVars, syncVars, renderVars>>

\* the write stream finishes: the whole body is in the file
PipeFinish ==
    /\ dl.pc = "piping"
    /\ fs' = [fs EXCEPT ![dl.filename] = CompleteFile(dl.url)]
    /\ dl' = [dl EXCEPT !.pc = "resolved", !.skipped = FALSE,
                        !.path = RelativePath(dl.url, dl.slug),
                        !.downloads = dl.downloads + 1]
    /\ UNCHANGED <<unlinks, netCalls, clientVars, syncVars, renderVars>>

\* the body stream breaks midway without an 'error' event on the request:
\* nothing resolves or rejects the promise
PipeStall ==
    /\ dl.pc = "piping"
    /\ dl' = [dl EXCEPT !.pc = "hung"]
    /\ UNCHANGED <<fs, unlinks, netCalls, clientVars, syncVars, renderVars>>

\* 'error' on the request: the unlink is queued, then the promise is rejected
RequestError ==
    /\ dl.pc \in {"waiting", "piping"}
    /\ unlinks' = unlinks \cup {dl.filename}
    /\ dl' = [dl EXCEPT !.pc = "rejected", !.err = "transport"]
    /\ UNCHANGED <<fs, netCalls, clientVars, syncVars, renderVars>>

\* the thread pool runs a queued unlink (its callback ignores the outcome)
RunUnlink(filename) ==
    /\ filename \in unlinks
    /\ unlinks' = unlinks \ {filename}
    /\ fs' = [f \in DOMAIN fs \ {filename} |-> fs[f]]
    /\ UNCHANGED <<dl, netCalls, clientVars, syncVars, renderVars>>

-----------------------------------------------------------------------------
(* richTextToHtml *)

NoAnnotations ==
    [bold |-> FALSE, italic |-> FALSE, strikethrough |-> FALSE,
     underline |-> FALSE, code |-> FALSE, color |-> "default"]

\* a plain-text span; href = <<>> stands for a span without a link
TextSpan(plain_text, annotations, href) ==
    [type |-> "text", plain_text |-> plain_text, annotations |-> annotations,
     href |-> href]

Plain(c) == <<TextSpan(<<c>>, NoAnnotations, <<>>)>>

\* The markup richTextToHtml produces is kept as its characters < and >
\* around the name of the element, so that escaping applied to it would show.
Br == <<"<", "br", ">">>

\* escaping of & < > and newline to <br>, in the order of the code
EscapeHtml(s) ==
    ReplaceAll(
        ReplaceAll(
            ReplaceAll(
                ReplaceAll(s, "&", <<"&", "a", "m", "p", ";">>),
                "<", <<"&", "l", "t", ";">>),
            ">", <<"&", "g", "t", ";">>),
        "\n", Br)

\* `<name>${content}</name>`
Wrap(name, content) == <<"<", name, ">">> \o content \o <<"<", "/", name, ">">>

\* the annotation wrappers applied in the opposite order: bold last
AnnotateBoldLast(content, a) ==
    LET c1 == IF a.code THEN Wrap("code", content) ELSE content
        c2 == IF a.underline THEN Wrap("u", c1) ELSE c1
        c3 == IF a.strikethrough THEN Wrap("del", c2) ELSE c2
        c4 == IF a.italic THEN Wrap("em", c3) ELSE c3
        c5 == IF a.bold THEN Wrap("strong", c4) ELSE c4
    IN  IF a.color # "" /\ a.color # "default"
        THEN <<"<", "span class=\"text-", a.color, "\"", ">">> \o c5 \o <<"<", "/", "span", ">">>
        ELSE c5

\* the annotations and the colour of a span, applied to its escaped text
Annotate(content, a) ==
    LET c1 == IF a.bold THEN Wrap("strong", content) ELSE content
        c2 == IF a.italic THEN Wrap("em", c1) ELSE c1
        c3 == IF a.strikethrough THEN Wrap("del", c2) ELSE c2
        c4 == IF a.underline THEN Wrap("u", c3) ELSE c3
        c5 == IF a.code THEN Wrap("code", c4) ELSE c4
    IN  IF a.color # "" /\ a.color # "default"
        THEN <<"<", "span class=\"text-", a.color, "\"", ">">> \o c5 \o <<"<", "/", "span", ">">>
        ELSE c5

\* an inline equation: a literal expression
EquationSpan(expression) == [type |-> "equation", expression |-> expression]

\* a mention of a user, a page, a database or anything else but a date, with
\* its display string
MentionSpan(mention_type, plain_text) ==
    [type |-> "mention", mention_type |-> mention_type, plain_text |-> plain_text]

\* a mention of a date or of a range of dates; end = <<>> stands for no end
DateMention(start, end) ==
    [type |-> "mention", mention_type |-> "date", start |-> start, end |-> end]

MonthNames ==
    <<"January", "February", "March", "April", "May", "June", "July", "August",
      "September", "October", "November", "December">>

DigitValue(c) == CHOOSE v \in 0..9 : <<"0", "1", "2", "3", "4", "5", "6", "7", "8", "9">>[v + 1] = c

\* new Date(iso).toLocaleDateString('en-US', { year: 'numeric', month: 'long',
\* day: 'numeric' }) of a date yyyy-mm-dd, in a time zone without offset
ToLocaleDateString(iso) ==
    LET month == 10 * DigitValue(iso[6]) + DigitValue(iso[7])
        day == IF iso[9] = "0" THEN <<iso[10]>> ELSE <<iso[9], iso[10]>>
    IN  <<MonthNames[month], " ">> \o day \o <<",", " ">> \o SubSeq(iso, 1, 4)

\* an equation or a mention in richTextToHtml
SpanOfKindToHtml(text) ==
    IF text.type = "equation"
    THEN <<"<span class=\"inline-equation\" data-equation=\"">>
            \o ReplaceAll(text.expression, "\"", <<"&", "q", "u", "o", "t", ";">>)
            \o <<"\">\\(">> \o text.expression \o <<"\\)</span>">>
    ELSE IF text.mention_type = "date"
    \* "\\u2192" stands for the arrow between the two dates of a range
    THEN <<"<span class=\"mention mention-date\">">>
           \o ToLocaleDateString(text.start)
           \o (IF text.end # <<>>
               THEN <<" ", "\\u2192", " ">> \o ToLocaleDateString(text.end)
               ELSE <<>>)
           \o <<"</span>">>
    ELSE IF text.mention_type = "user"
    THEN <<"<span class=\"mention mention-user\">@">> \o text.plain_text \o <<"</span>">>
    ELSE IF text.mention_type \in {"page", "database"}
    THEN <<"<span class=\"mention mention-page\">">> \o text.plain_text \o <<"</span>">>
    ELSE text.plain_text

\* a span whose hyperlink is applied before its annotations and its colour
SpanToHtmlLinkFirst(text) ==
    IF text.type \in {"equation", "mention"}
    THEN SpanOfKindToHtml(text)
    ELSE LET escaped == EscapeHtml(text.plain_text)
             linked == IF text.href # <<>>
                       THEN <<"<", "a href=\"">> \o text.href \o <<"\"", ">">>
                               \o escaped \o <<"<", "/", "a", ">">>
                       ELSE escaped
         IN  Annotate(linked, text.annotations)

\* one element of the map in richTextToHtml
SpanToHtml(text) ==
    IF text.type \in {"equation", "mention"}
    THEN SpanOfKindToHtml(text)
    ELSE LET content == Annotate(EscapeHtml(text.plain_text), text.annotations)
         IN  IF text.href # <<>>
             THEN <<"<", "a href=\"">> \o text.href \o <<"\"", ">">> \o content
                    \o <<"<", "/", "a", ">">>
             ELSE content

RichTextToHtml(richTextArray) ==
    Join([k \in 1..Len(richTextArray) |-> SpanToHtml(richTextArray[k])], <<>>)

-----------------------------------------------------------------------------
(* Blocks, and the document the content API serves *)

Paragraph(rich_text) ==
    [type |-> "paragraph", id |-> "", has_children |-> FALSE, rich_text |-> rich_text]

BulletedItem(id, rich_text, has_children) ==
    [type |-> "bulleted_list_item", id |-> id, has_children |-> has_children,
     rich_text |-> rich_text]

NumberedItem(id, rich_text, has_children) ==
    [type |-> "numbered_list_item", id |-> id, has_children |-> has_children,
     rich_text |-> rich_text]

Divider == [type |-> "divider", id |-> "", has_children |-> FALSE]

Breadcrumb == [type |-> "breadcrumb", id |-> "", has_children |-> FALSE]

\* an image block of type 'file' (a signed URL of the content store)
ImageBlock(url, caption) ==
    [type |-> "image", id |-> "", has_children |-> FALSE, image_type |-> "file",
     external_url |-> <<>>, file_url |-> url, caption |-> caption]

Table(id, has_children, has_column_header, has_row_header) ==
    [type |-> "table", id |-> id, has_children |-> has_children,
     has_column_header |-> has_column_header, has_row_header |-> has_row_header]

TableRow(cells) ==
    [type |-> "table_row", id |-> "", has_children |-> FALSE, cells |-> cells]

Quote(id, rich_text, has_children) ==
    [type |-> "quote", id |-> id, has_children |-> has_children, rich_text |-> rich_text]

\* icon is the emoji or the URL of the icon, <<>> when the callout has none
Callout(id, rich_text, has_children, icon, color) ==
    [type |-> "callout", id |-> id, has_children |-> has_children,
     rich_text |-> rich_text, icon |-> icon, color |-> color]

ToDo(id, rich_text, has_children, checked) ==
    [type |-> "to_do", id |-> id, has_children |-> has_children,
     rich_text |-> rich_text, checked |-> checked]

Toggle(id, rich_text, has_children) ==
    [type |-> "toggle", id |-> id, has_children |-> has_children, rich_text |-> rich_text]

ColumnList(id, has_children) ==
    [type |-> "column_list", id |-> id, has_children |-> has_children]

Column(id, has_children) ==
    [type |-> "column", id |-> id, has_children |-> has_children]

\* synced_from is the id of the original block, "" for an original block
SyncedBlock(id, has_children, synced_from) ==
    [type |-> "synced_block", id |-> id, has_children |-> has_children,
     synced_from |-> synced_from]

\* language = <<>> stands for a code block without a language
CodeBlock(language, rich_text, caption) ==
    [type |-> "code", id |-> "", has_children |-> FALSE, language |-> language,
     rich_text |-> rich_text, caption |-> caption]

\* a video block of type 'external'
Video(url) ==
    [type |-> "video", id |-> "", has_children |-> FALSE, video_type |-> "external",
     external_url |-> url, file_url |-> <<>>]

\* a block that renders to nothing: table_of_contents, child_page,
\* child_database, or a type the switch does not know
Skipped(type) == [type |-> type, id |-> "", has_children |-> FALSE]

\* ids of the blocks of the document that have children
ItemB == "id-B"
ItemE == "id-E"
ItemX == "id-x"
TableId == "id-T"
QuoteId == "id-Q"
CalloutId == "id-K"
ToDoId == "id-O"
ToggleId == "id-G"
ColumnListId == "id-L"
ColumnLeft == "id-L1"
ColumnRight == "id-L2"
SyncedOriginal == "id-S"
SyncedOwn == "id-Y"

\* what notion.blocks.children.list returns, all pages of it, for a block id
Children(blockId) ==
    CASE blockId = ItemB ->
            << BulletedItem(ItemX, Plain("x"), TRUE), BulletedItem("", Plain("y"), FALSE) >>
      [] blockId = ItemX ->
            << NumberedItem(ItemE, Plain("z"), TRUE) >>
      [] blockId = ItemE ->
            << Paragraph(Plain("w")), NumberedItem("", Plain("v"), FALSE) >>
      [] blockId = TableId ->
            << TableRow(<< Plain("a"), Plain("<"), <<>> >>),
               TableRow(<< Plain("c"), Plain("d"), Plain("e") >>),
               TableRow(<< Plain("f"), Plain("g"), Plain("h") >>) >>
      [] blockId = QuoteId -> << Paragraph(Plain("q")) >>
      [] blockId = CalloutId -> << Paragraph(Plain("k")) >>
      [] blockId = ToDoId -> << Paragraph(Plain("o")) >>
      [] blockId = ToggleId -> << Paragraph(Plain("g")), Divider >>
      [] blockId = ColumnListId ->
            << Column(ColumnLeft, TRUE), Column("", FALSE), Skipped("unsupported"),
               Column(ColumnRight, TRUE) >>
      [] blockId = ColumnLeft -> << Paragraph(Plain("l")) >>
      [] blockId = ColumnRight ->
            << Paragraph(Plain("r")), ImageBlock(<<"/", "j">>, Plain("c")) >>
      [] blockId = SyncedOriginal ->
            << Paragraph(Plain("s")), Quote(QuoteId, Plain("u"), TRUE) >>
      [] blockId = SyncedOwn -> << Paragraph(Plain("y")) >>
      [] OTHER -> <<>>

-----------------------------------------------------------------------------
(* A client that calls downloadImage a few times, one call after the other *)

NoLast == [url |-> <<>>, slug |-> "", filename |-> <<>>]

\* main has not been called
NoSync ==
    [pc |-> "idle", push |-> FALSE, pages |-> <<>>, p |-> 0, generatedFiles |-> {},
     posts |-> <<>>, existingFiles |-> {}, deletedCount |-> 0, cleaned |-> FALSE,
     status |-> <<>>, git |-> <<>>]

\* no paginated fetch has been made
NoListing ==
    [pc |-> "idle", fn |-> "", block_id |-> "", blocks |-> <<>>, cursor |-> "undefined",
     sent |-> <<>>, log |-> <<>>]

Call(imageUrl, slug) ==
    /\ dl.pc = "idle"
    /\ ncalls < MaxCalls
    /\ ncalls' = ncalls + 1
    /\ DownloadImage(imageUrl, slug, imageUrl, 0, DOMAIN fs, 0)
    /\ UNCHANGED <<last, renderVars, syncVars>>

\* the settled promise reaches the caller
Collect ==
    /\ dl.pc \in {"resolved", "rejected"}
    /\ last' = IF dl.hops = 0
               THEN [url |-> dl.url, slug |-> dl.slug, filename |-> dl.filename]
               ELSE last
    /\ dl' = NoCall
    /\ UNCHANGED <<fs, unlinks, netCalls, ncalls, renderVars, syncVars>>

InitResolve ==
    /\ fs = <<>>
    /\ unlinks = {}
    /\ dl = NoCall
    /\ netCalls = 0
    /\ ncalls = 0
    /\ last = NoLast
    /\ page = [blocks |-> <<>>, slug |-> ""]
    /\ stack = <<>>
    /\ rphase = "idle"
    /\ run = [n |-> 0, net0 |-> 0, fallbacks |-> 0, fetchErrors |-> 0, issued |-> <<>>]
    /\ prev = [html |-> <<>>, fallbacks |-> 0]
    /\ out = <<>>
    /\ dir = <<>>
    /\ sync = NoSync
    /\ listing = NoListing

NextResolve ==
    \/ \E u \in Locators, s \in Slugs : Call(u, s)
    \/ \E u \in Locators : Redirect(u)
    \/ RedirectNoLocation
    \/ \E c \in OtherStatuses : StatusOther(c)
    \/ Status200
    \/ PipeChunk
    \/ PipeFinish
    \/ PipeStall
    \/ RequestError
    \/ \E f \in unlinks : RunUnlink(f)
    \/ Collect

SpecResolve == InitResolve /\ [][NextResolve]_vars

\* the server answers every request, the streams deliver their events and the
\* thread pool runs what is queued: a step that can be taken is taken
FairResolve == SpecResolve /\ WF_vars(NextResolve)

-----------------------------------------------------------------------------
(* blocksToHtml: the fragments of the blocks *)

\* the separator of the join that ends blocksToHtml
Separator == <<"\n\n                    ">>

RECURSIVE TrimLeadingBr(_)
TrimLeadingBr(s) ==
    IF Len(s) >= Len(Br) /\ SubSeq(s, 1, Len(Br)) = Br
    THEN TrimLeadingBr(SubSeq(s, Len(Br) + 1, Len(s)))
    ELSE s

RECURSIVE TrimTrailingBr(_)
TrimTrailingBr(s) ==
    IF Len(s) >= Len(Br) /\ SubSeq(s, Len(s) - Len(Br) + 1, Len(s)) = Br
    THEN TrimTrailingBr(SubSeq(s, 1, Len(s) - Len(Br)))
    ELSE s

\* a trim of the leading line breaks only
TrimLeadingOnly(s) == TrimLeadingBr(s)

\* .replace(/^(<br>)+|(<br>)+$/g, '')
TrimBr(s) == TrimTrailingBr(TrimLeadingBr(s))

ParagraphHtml(block) ==
    LET text == TrimBr(RichTextToHtml(block.rich_text))
    IN  IF text # <<>> THEN <<"<p>">> \o text \o <<"</p>">> ELSE <<>>

\* the plain text of the spans, joined: rich_text.map(t => t.plain_text).join('')
PlainText(rich_text) == Join([k \in 1..Len(rich_text) |-> rich_text[k].plain_text], <<>>)

\* a code case that forgets to escape
EscapeCodeNot(codeText) == codeText

\* the three replacements of the code case, in the order of the code
EscapeCode(codeText) ==
    ReplaceAll(
        ReplaceAll(
            ReplaceAll(codeText, "&", <<"&", "a", "m", "p", ";">>),
            "<", <<"&", "l", "t", ";">>),
        ">", <<"&", "g", "t", ";">>)

CodeHtml(block) ==
    LET language == IF block.language = <<>> THEN <<"plaintext">> ELSE block.language
        escapedCode == EscapeCode(PlainText(block.rich_text))
        codeCaption == IF Len(block.caption) > 0
                       THEN <<"<figcaption class=\"code-caption\">">>
                                \o RichTextToHtml(block.caption) \o <<"</figcaption>">>
                       ELSE <<>>
    IN  <<"<figure class=\"code-block\"><pre><code class=\"language-">> \o language
            \o <<"\">">> \o escapedCode \o <<"</code></pre>">> \o codeCaption
            \o <<"</figure>">>

\* pat occurs in s at position p
IsSubAt(s, pat, p) ==
    p + Len(pat) - 1 <= Len(s) /\ SubSeq(s, p, p + Len(pat) - 1) = pat

\* String.prototype.includes
Includes(s, pat) == \E p \in 1..Len(s) : IsSubAt(s, pat, p)

\* the longest stretch of s from position q whose characters are all in class
RunFrom(s, q, class) ==
    LET ends == { e \in q..Len(s) : \A k \in q..e : s[k] \in class }
    IN  IF ends = {} THEN <<>>
        ELSE SubSeq(s, q, CHOOSE e \in ends : \A d \in ends : d <= e)

\* the first group of the leftmost match of /(?:alt1|alt2)(class+)/ in s, <<>>
\* when nothing matches (match(...)?.[1] is undefined); no two of the
\* alternatives match at one position
FirstGroup(s, alternatives, class) ==
    LET MatchesAt(p, a) ==
            /\ IsSubAt(s, a, p)
            /\ p + Len(a) <= Len(s)
            /\ s[p + Len(a)] \in class
        starts == { p \in 1..Len(s) : \E a \in alternatives : MatchesAt(p, a) }
    IN  IF starts = {} THEN <<>>
        ELSE LET p0 == CHOOSE p \in starts : \A r \in starts : p <= r
                 a0 == CHOOSE a \in alternatives : MatchesAt(p0, a)
             IN  RunFrom(s, p0 + Len(a0), class)

YouTubeCom == <<"y", "o", "u", "t", "u", "b", "e", ".", "c", "o", "m">>
YouTuBe == <<"y", "o", "u", "t", "u", ".", "b", "e">>
VimeoCom == <<"v", "i", "m", "e", "o", ".", "c", "o", "m">>
WatchPrefix == <<"y", "o", "u", "t", "u", "b", "e", ".", "c", "o", "m", "/", "w", "a", "t", "c", "h", "?", "v", "=">>
ShortPrefix == <<"y", "o", "u", "t", "u", ".", "b", "e", "/">>
VimeoPrefix == <<"v", "i", "m", "e", "o", ".", "c", "o", "m", "/">>
Digits == {"0", "1", "2", "3", "4", "5", "6", "7", "8", "9"}

\* the characters of the video locators
UrlChars ==
    Digits \cup {"/", ".", "?", "=", "&", "a", "b", "c", "d", "e", "h", "i", "m",
                 "o", "t", "u", "v", "w", "x", "y"}

\* [^&\s]: any character but & and white space
IdChars == UrlChars \ {"&", " ", "\n"}

VideoUrl(block) ==
    IF block.video_type = "external" THEN block.external_url ELSE block.file_url

VideoHtml(block) ==
    LET videoUrl == VideoUrl(block)
        videoId == FirstGroup(videoUrl, {WatchPrefix, ShortPrefix}, IdChars)
        vimeoId == FirstGroup(videoUrl, {VimeoPrefix}, Digits)
    IN  IF Includes(videoUrl, YouTubeCom) \/ Includes(videoUrl, YouTuBe)
        THEN IF videoId # <<>>
             THEN <<"<div class=\"video-embed\"><iframe src=\"https://www.youtube.com/embed/">>
                     \o videoId
                     \o <<"\" frameborder=\"0\" allowfullscreen loading=\"lazy\"></iframe></div>">>
             ELSE <<>>
        ELSE IF Includes(videoUrl, VimeoCom)
        THEN IF vimeoId # <<>>
             THEN <<"<div class=\"video-embed\"><iframe src=\"https://player.vimeo.com/video/">>
                     \o vimeoId
                     \o <<"\" frameborder=\"0\" allowfullscreen loading=\"lazy\"></iframe></div>">>
             ELSE <<>>
        ELSE <<"<video controls><source src=\"">> \o videoUrl \o <<"\"></video>">>

\* the blocks that blocksToHtml renders without awaiting anything; every type
\* the switch does not name takes the default branch, as "unsupported" does
SimpleTypes ==
    {"paragraph", "divider", "breadcrumb", "code", "video", "table_of_contents",
     "child_page", "child_database", "unsupported"}

SimpleHtml(block) ==
    CASE block.type = "paragraph" -> ParagraphHtml(block)
      [] block.type = "divider" -> <<"<hr>">>
      [] block.type = "code" -> CodeHtml(block)
      [] block.type = "video" -> VideoHtml(block)
      [] OTHER -> <<>>

ListTypes == {"bulleted_list_item", "numbered_list_item"}

\* the wrapper of a run of list items
ListHtml(type, listItems) ==
    IF type = "bulleted_list_item"
    THEN <<"<ul>", "\n">> \o Join(listItems, <<"\n">>) \o <<"\n", "</ul>">>
    ELSE <<"<ol>", "\n">> \o Join(listItems, <<"\n">>) \o <<"\n", "</ol>">>

\* a list item rendered as if every item had children
HasChildrenAlways(block) == TRUE

\* block.has_children, as the list, table and container cases test it
HasChildren(block) == block.has_children

ImageUrl(block) ==
    IF block.image_type = "external" THEN block.external_url ELSE block.file_url

ImageCaption(block) ==
    IF Len(block.caption) > 0 THEN RichTextToHtml(block.caption) ELSE <<>>

\* the figure of an image block, for a local path or for the remote URL
FigureHtml(src, caption) ==
    <<"<figure><img src=\"">> \o src \o <<"\" alt=\"">> \o caption
        \o <<"\" loading=\"lazy\"><figcaption>">> \o caption
        \o <<"</figcaption></figure>">>

\* a fallback that renders nothing for an image whose download failed
FallbackNothing(block) == <<>>

\* the catch branch of the image case
FallbackHtml(block) == FigureHtml(ImageUrl(block), ImageCaption(block))

\* a header test that ignores the first-column flag
IsHeaderCellRowOnly(block, rowIndex, cellIndex) ==
    block.has_column_header /\ rowIndex = 0

\* isHeaderRow || isHeaderCell, for the 0-based indices of forEach
IsHeaderTag(block, rowIndex, cellIndex) ==
    LET isHeaderRow == block.has_column_header /\ rowIndex = 0
        isHeaderCell == block.has_row_header /\ cellIndex = 0
    IN  isHeaderRow \/ isHeaderCell

CellHtml(block, cell, rowIndex, cellIndex) ==
    LET tag == IF IsHeaderTag(block, rowIndex, cellIndex) THEN "th" ELSE "td"
        cellContent == Join([k \in 1..Len(cell) |-> RichTextToHtml(<<cell[k]>>)], <<>>)
    IN  IF tag = "th"
        THEN <<"<th>">> \o cellContent \o <<"</th>">>
        ELSE <<"<td>">> \o cellContent \o <<"</td>">>

RowHtml(block, row, rowIndex) ==
    IF row.type = "table_row"
    THEN <<"<tr>">>
            \o Join([c \in 1..Len(row.cells) |->
                        CellHtml(block, row.cells[c], rowIndex, c - 1)], <<>>)
            \o <<"</tr>">>
    ELSE <<>>

TableHtml(block, rows) ==
    <<"<table class=\"notion-table\">">>
        \o Join([r \in 1..Len(rows) |-> RowHtml(block, rows[r], r - 1)], <<>>)
        \o <<"</table>">>

\* the blocks that may render nested blocks into one wrapper
ContainerTypes == {"quote", "callout", "to_do", "toggle", "synced_block"}

\* a synced block that refers to an original block
IsSyncedReference(block) == block.type = "synced_block" /\ block.synced_from # ""

\* whether the case of a container fetches children, and for which id
NeedsFetch(block) == IsSyncedReference(block) \/ HasChildren(block)

FetchId(block) == IF IsSyncedReference(block) THEN block.synced_from ELSE block.id

\* what the rendered children add to the content of a container
ChildrenPart(block, childrenHtml) ==
    CASE block.type \in {"quote", "callout"} -> <<"\n">> \o childrenHtml
      [] block.type = "to_do" ->
            <<"\n", "<div class=\"todo-children\">">> \o childrenHtml \o <<"</div>">>
      [] block.type \in {"toggle", "synced_block"} -> childrenHtml

\* the fragment of a container; part is ChildrenPart, or <<>> without children
ContainerHtml(block, part) ==
    CASE block.type = "quote" ->
            <<"<blockquote>">> \o RichTextToHtml(block.rich_text) \o part
                \o <<"</blockquote>">>
      [] block.type = "callout" ->
            <<"<div class=\"callout callout-",
              IF block.color = "" THEN "default" ELSE block.color,
              "\"><span class=\"callout-icon\">">>
                \* "(light bulb)" stands for the default icon, the emoji U+1F4A1
                \o (IF block.icon = <<>> THEN <<"(light bulb)">> ELSE block.icon)
                \o <<"</span><div class=\"callout-content\">">>
                \o RichTextToHtml(block.rich_text) \o part \o <<"</div></div>">>
      [] block.type = "to_do" ->
            <<"<div class=\"todo-item\"><input type=\"checkbox\" ",
              IF block.checked THEN "checked" ELSE "",
              " disabled><span class=\"",
              IF block.checked THEN "todo-checked" ELSE "",
              "\">">>
                \o RichTextToHtml(block.rich_text) \o part \o <<"</span></div>">>
      [] block.type = "toggle" ->
            <<"<details class=\"toggle\"><summary>">> \o RichTextToHtml(block.rich_text)
                \o <<"</summary><div class=\"toggle-content\">">> \o part
                \o <<"</div></details>">>
      [] block.type = "synced_block" -> part

-----------------------------------------------------------------------------
(* blocksToHtml: one activation, from block to block *)

\* a new activation: blocksToHtml(blocks, slug) at its first block
NewFrame(blocks, slug) ==
    [blocks |-> blocks, slug |-> slug, i |-> 1, htmlParts |-> <<>>,
     listType |-> "none", listItems |-> <<>>, itemHtml |-> <<>>,
     columns |-> <<>>, c |-> 0,
     wait |-> "none", fetching |-> ""]

Top == stack[Len(stack)]

SetTop(f) == [stack EXCEPT ![Len(stack)] = f]

\* the block the activation on top is at
Block == Top.blocks[Top.i]

\* the loop tail: if (html) htmlParts.push(html); i++
BlockDoneKeepingEmpty(f, html) ==
    [f EXCEPT !.htmlParts = Append(@, html), !.i = @ + 1]

BlockDone(f, html) ==
    [f EXCEPT !.htmlParts = IF html # <<>> THEN Append(@, html) ELSE @,
              !.i = @ + 1]

\* the end of a list run without the i-- before the loop tail
EndRunWithoutDecrement(f) ==
    BlockDone([f EXCEPT !.listType = "none", !.listItems = <<>>],
              ListHtml(f.listType, f.listItems))

\* after the inner while of a list run: i--, the wrapper, and the loop tail
EndRun(f) ==
    LET f1 == [f EXCEPT !.i = @ - 1]
        html == ListHtml(f.listType, f.listItems)
    IN  BlockDone([f1 EXCEPT !.listType = "none", !.listItems = <<>>], html)

\* an inner loop that stops after every item
AfterItemEndsRun(f) == EndRun(f)

\* the condition of the inner while, evaluated after an item
AfterItem(f) ==
    IF f.i <= Len(f.blocks) /\ f.blocks[f.i].type = f.listType THEN f ELSE EndRun(f)

\* itemHtml += '</li>'; listItems.push(itemHtml); i++
ItemDone(f, itemHtml) ==
    AfterItem([f EXCEPT !.listItems = Append(@, itemHtml \o <<"</li>">>),
                        !.itemHtml = <<>>,
                        !.i = @ + 1])

\* the order in which the loop over the columns visits them, last first
ColumnOrderReversed(columns) == [k \in 1..Len(columns) |-> columns[Len(columns) + 1 - k]]

\* for (const column of columns)
ColumnOrder(columns) == columns

RECURSIVE AdvanceColumns(_)
\* the loop over the columns, from column f.c up to the next fetch of a
\* column's blocks, or to its end: columnsHtml += '</div>' and the loop tail
AdvanceColumns(f) ==
    IF f.c > Len(f.columns)
    THEN BlockDone([f EXCEPT !.wait = "none", !.fetching = "", !.columns = <<>>,
                             !.c = 0, !.itemHtml = <<>>],
                   f.itemHtml \o <<"</div>">>)
    ELSE IF f.columns[f.c].type = "column" /\ f.columns[f.c].has_children
    THEN [f EXCEPT !.wait = "children", !.fetching = f.columns[f.c].id]
    ELSE AdvanceColumns([f EXCEPT !.c = @ + 1])

\* what a render has asked the content API and the image resolver for
ChildFetch(blockId) == [kind |-> "children", of |-> <<blockId>>]
ImageFetch(imageUrl) == [kind |-> "image", of |-> imageUrl]

\* the record of the render, after the activation f has (or has not) begun to
\* await fetchBlockChildren
Logged(f) ==
    IF f.wait = "children"
    THEN [run EXCEPT !.issued = Append(@, ChildFetch(f.fetching))]
    ELSE run

Ready ==
    /\ rphase = "running"
    /\ stack # <<>>
    /\ Top.wait = "none"
    /\ Top.i <= Len(Top.blocks)

\* a block rendered without awaiting
StepSimple ==
    /\ Ready
    /\ Block.type \in SimpleTypes
    /\ stack' = SetTop(BlockDone(Top, SimpleHtml(Block)))
    /\ UNCHANGED <<fs, unlinks, dl, netCalls, clientVars, syncVars, page, rphase, run, prev, out>>

\* one item of a run of list items, up to its fetch of children if it has any
StepListItem ==
    /\ Ready
    /\ Block.type \in ListTypes
    /\ LET f == IF Top.listType = "none"
                THEN [Top EXCEPT !.listType = Block.type, !.listItems = <<>>]
                ELSE Top
           itemHtml == <<"<li>">> \o RichTextToHtml(Block.rich_text)
       IN  IF HasChildren(Block)
           THEN stack' = SetTop([f EXCEPT !.itemHtml = itemHtml, !.wait = "children",
                                          !.fetching = Block.id])
           ELSE stack' = SetTop(ItemDone(f, itemHtml))
    /\ run' = Logged(stack'[Len(stack')])
    /\ UNCHANGED <<fs, unlinks, dl, netCalls, clientVars, syncVars, page, rphase, prev, out>>

\* a table: its rows are fetched when it has children
StepTable ==
    /\ Ready
    /\ Block.type = "table"
    /\ IF HasChildren(Block)
       THEN stack' = SetTop([Top EXCEPT !.wait = "children", !.fetching = Block.id])
       ELSE stack' = SetTop(BlockDone(Top, <<>>))
    /\ run' = Logged(stack'[Len(stack')])
    /\ UNCHANGED <<fs, unlinks, dl, netCalls, clientVars, syncVars, page, rphase, prev, out>>

\* a quote, callout, to-do, toggle or synced block: its children are fetched
\* when the case asks for them, and it is rendered at once otherwise
StepContainer ==
    /\ Ready
    /\ Block.type \in ContainerTypes
    /\ IF NeedsFetch(Block)
       THEN stack' = SetTop([Top EXCEPT !.wait = "children", !.fetching = FetchId(Block)])
       ELSE stack' = SetTop(BlockDone(Top, ContainerHtml(Block, <<>>)))
    /\ run' = Logged(stack'[Len(stack')])
    /\ UNCHANGED <<fs, unlinks, dl, netCalls, clientVars, syncVars, page, rphase, prev, out>>

\* a column list: its columns are fetched when it has children
StepColumnList ==
    /\ Ready
    /\ Block.type = "column_list"
    /\ IF HasChildren(Block)
       THEN stack' = SetTop([Top EXCEPT !.wait = "children", !.fetching = Block.id])
       ELSE stack' = SetTop(BlockDone(Top, <<>>))
    /\ run' = Logged(stack'[Len(stack')])
    /\ UNCHANGED <<fs, unlinks, dl, netCalls, clientVars, syncVars, page, rphase, prev, out>>

\* an image: downloadImage is called and awaited
StepImage ==
    /\ Ready
    /\ Block.type = "image"
    /\ dl.pc = "idle"
    /\ DownloadImage(ImageUrl(Block), Top.slug, ImageUrl(Block), 0, DOMAIN fs, 0)
    /\ stack' = SetTop([Top EXCEPT !.wait = "image"])
    /\ run' = [run EXCEPT !.issued = Append(@, ImageFetch(ImageUrl(Block)))]
    /\ UNCHANGED <<clientVars, syncVars, page, rphase, prev, out>>

\* the stack after fetchBlockChildren has returned children to the activation
\* on top
StackAfterChildren(children) ==
    IF Block.type = "table"
    THEN SetTop(BlockDone([Top EXCEPT !.wait = "none", !.fetching = ""],
                          TableHtml(Block, children)))
    ELSE IF Block.type = "column_list" /\ Top.c = 0
    THEN SetTop(AdvanceColumns(
                    [Top EXCEPT !.wait = "none", !.fetching = "",
                                !.columns = ColumnOrder(children), !.c = 1,
                                !.itemHtml = <<"<div class=\"columns\">">>]))
    ELSE Append(SetTop([Top EXCEPT !.wait = "render", !.fetching = ""]),
                NewFrame(children, Top.slug))

\* fetchBlockChildren returns: the children of a list item, of a container
\* or of a column are rendered by a new activation with the slug of this one;
\* a table's rows are rendered in place; the columns of a column list start
\* the loop over them
ChildrenArrive ==
    /\ rphase = "running"
    /\ stack # <<>>
    /\ Top.wait = "children"
    /\ stack' = StackAfterChildren(Children(Top.fetching))
    /\ run' = Logged(stack'[Len(stack')])
    /\ UNCHANGED <<fs, unlinks, dl, netCalls, clientVars, syncVars, page, rphase, prev, out>>

\* a try block that catches nothing
InTryNever(f) == FALSE

\* the activation is inside the try of the synced_from branch: at its await
\* of fetchBlockChildren, or at its await of blocksToHtml(children, slug)
InTry(f) ==
    /\ f.i <= Len(f.blocks)
    /\ IsSyncedReference(f.blocks[f.i])
    /\ f.wait \in {"children", "render"}

\* the activations whose catch an error thrown on top of the stack passes
Catchers == { n \in 1..Len(stack) : InTry(stack[n]) }

\* what an error thrown by the fetch does to the render: it passes to the
\* innermost catch, or ends the render
Thrown ==
    /\ IF Catchers = {}
       THEN /\ stack' = <<>>
            /\ rphase' = "failed"
       ELSE LET n == CHOOSE m \in Catchers : \A k \in Catchers : k <= m
            IN  /\ stack' = Append(SubSeq(stack, 1, n - 1),
                                   BlockDone([stack[n] EXCEPT !.wait = "none",
                                                              !.fetching = ""], <<>>))
                /\ UNCHANGED rphase
    /\ run' = [run EXCEPT !.fetchErrors = @ + 1]

\* fetchBlockChildren throws: the error unwinds the activations up to the
\* innermost try of a synced reference, whose catch leaves html empty; without
\* one the render fails
ChildrenFail ==
    /\ rphase = "running"
    /\ stack # <<>>
    /\ Top.wait = "children"
    /\ Thrown
    /\ UNCHANGED <<fs, unlinks, dl, netCalls, clientVars, syncVars, page, prev, out>>

\* the activation that awaited blocksToHtml(children, slug) goes on with the result
Resume(parent, childrenHtml) ==
    LET block == parent.blocks[parent.i]
        f == [parent EXCEPT !.wait = "none"]
    IN  IF block.type \in ListTypes
        THEN ItemDone(f, parent.itemHtml \o <<"\n">> \o childrenHtml)
        ELSE IF block.type = "column_list"
        THEN AdvanceColumns([f EXCEPT !.itemHtml = @ \o <<"<div class=\"column\">">>
                                                     \o childrenHtml \o <<"</div>">>,
                                      !.c = @ + 1])
        ELSE BlockDone(f, ContainerHtml(block, ChildrenPart(block, childrenHtml)))

\* the loop of the activation on top has ended: it returns the joined fragments
Return ==
    /\ rphase = "running"
    /\ stack # <<>>
    /\ Top.wait = "none"
    /\ Top.i > Len(Top.blocks)
    /\ LET html == Join(Top.htmlParts, Separator)
       IN  IF Len(stack) = 1
           THEN /\ stack' = <<>>
                /\ out' = html
                /\ rphase' = "done"
                /\ UNCHANGED run
           ELSE /\ stack' = Append(SubSeq(stack, 1, Len(stack) - 2),
                                   Resume(stack[Len(stack) - 1], html))
                /\ run' = Logged(stack'[Len(stack')])
                /\ UNCHANGED <<out, rphase>>
    /\ UNCHANGED <<fs, unlinks, dl, netCalls, clientVars, syncVars, page, prev>>

\* the awaited downloadImage has settled: the figure, or the fallback of the catch
ImageSettled ==
    /\ rphase = "running"
    /\ stack # <<>>
    /\ Top.wait = "image"
    /\ dl.pc \in {"resolved", "rejected"}
    /\ IF dl.pc = "resolved"
       THEN /\ stack' = SetTop(BlockDone([Top EXCEPT !.wait = "none"],
                                         FigureHtml(dl.path, ImageCaption(Block))))
            /\ UNCHANGED run
       ELSE /\ stack' = SetTop(BlockDone([Top EXCEPT !.wait = "none"], FallbackHtml(Block)))
            /\ run' = [run EXCEPT !.fallbacks = @ + 1]
    /\ dl' = NoCall
    /\ UNCHANGED <<fs, unlinks, netCalls, clientVars, syncVars, page, rphase, prev, out>>

\* the page is rendered: the first time, or once more after a completed render
StartRender ==
    /\ rphase \in {"idle", "done"}
    /\ run.n < MaxRenders
    /\ stack' = <<NewFrame(page.blocks, page.slug)>>
    /\ rphase' = "running"
    /\ run' = [n |-> run.n + 1, net0 |-> netCalls, fallbacks |-> 0, fetchErrors |-> 0,
               issued |-> <<>>]
    /\ prev' = IF run.n = 0 THEN prev ELSE [html |-> out, fallbacks |-> run.fallbacks]
    /\ out' = <<>>
    /\ UNCHANGED <<fs, unlinks, dl, netCalls, clientVars, syncVars, page>>

-----------------------------------------------------------------------------
(* The pages rendered *)

\* all sequences over S of length 1 to n
SeqsUpTo(S, n) == UNION { [1..k -> S] : k \in 1..n }

ListBlocks ==
    { Paragraph(Plain("C")),
      BulletedItem("", Plain("A"), FALSE),
      BulletedItem(ItemB, Plain("B"), TRUE),
      NumberedItem("", Plain("D"), FALSE) }

ImageLocators ==
    { <<"/", "j">>, <<"/", "j", "?", "s">>, <<"/", "i", ".", "J", "P", "G", "?", "t">> }

PageSlugs == { "alpha" }

ImageBlocks == { ImageBlock(u, Plain("c")) : u \in ImageLocators }

\* pages of images, with or without a paragraph after them
ImagePages ==
    { images \o rest : images \in SeqsUpTo(ImageBlocks, MaxImageBlocks),
                       rest \in { <<>>, <<Paragraph(Plain("C"))>> } }

TableBlocks ==
    { Table(TableId, TRUE, ch, rh) : ch \in BOOLEAN, rh \in BOOLEAN }
        \cup { Table("", FALSE, TRUE, TRUE), Divider, Breadcrumb }

ContainerBlocks ==
    { Paragraph(Plain("C")),
      Quote(QuoteId, Plain("Q"), TRUE),
      Quote("", Plain("Q"), FALSE),
      Callout(CalloutId, Plain("K"), TRUE, <<>>, ""),
      ToDo(ToDoId, Plain("O"), TRUE, TRUE),
      Toggle(ToggleId, Plain("G"), TRUE),
      ColumnList(ColumnListId, TRUE),
      SyncedBlock("", FALSE, SyncedOriginal),
      SyncedBlock(SyncedOwn, TRUE, "") }

ContainerPages == SeqsUpTo(ContainerBlocks, MaxContainerBlocks)

Annotations ==
    [bold : BOOLEAN, italic : BOOLEAN, strikethrough : BOOLEAN, underline : BOOLEAN,
     code : BOOLEAN, color : {"default", "red"}]

\* one span "a<" with every combination of annotations, colour and link
AnnotatedSpans ==
    { TextSpan(<<"a", "<">>, a, h) : a \in Annotations, h \in { <<>>, <<"h">> } }

\* spans with text to escape, line breaks, and a few annotations
FewSpans ==
    { TextSpan(<<"a">>, NoAnnotations, <<>>),
      TextSpan(<<"\n">>, NoAnnotations, <<>>),
      TextSpan(<<"\n", "b", "\n", "&", "\n">>, NoAnnotations, <<>>),
      TextSpan(<<"\n">>, [NoAnnotations EXCEPT !.bold = TRUE], <<>>),
      TextSpan(<<"<", ">">>, [NoAnnotations EXCEPT !.italic = TRUE, !.color = "red"], <<"h">>) }

RichTexts == { <<t>> : t \in AnnotatedSpans } \cup SeqsUpTo(FewSpans, MaxSpans)

\* pages of one paragraph
RichPages == { <<Paragraph(rich_text)>> : rich_text \in RichTexts \cup { <<>> } }

CodeSpans ==
    { TextSpan(<<"<", "s", ">", "&">>, [NoAnnotations EXCEPT !.bold = TRUE], <<>>),
      TextSpan(<<"&", "l", "t", ";">>, NoAnnotations, <<"h">>),
      TextSpan(<<"a", "\n", "b">>, NoAnnotations, <<>>) }

\* source text with the three characters that HTML gives a meaning
Special == <<"a", "<", "b", ">", "&">>

\* one span of every kind, without annotations
KindSpans ==
    { TextSpan(Special, NoAnnotations, <<>>), EquationSpan(Special),
      EquationSpan(<<"x", "\"">>) }
        \cup { MentionSpan(k, Special) : k \in {"user", "page", "database", "link_preview"} }
        \cup { DateMention(<<"2", "0", "2", "4", "-", "0", "1", "-", "0", "5">>, e) :
                 e \in { <<>>, <<"2", "0", "2", "4", "-", "1", "2", "-", "3", "1">> } }

\* pages of one paragraph of one span
KindPages == { <<Paragraph(<<t>>)>> : t \in KindSpans }

\* pages of one code block
CodePages ==
    { <<CodeBlock(language, rich_text, caption)>> :
        language \in { <<>>, <<"js">> },
        rich_text \in SeqsUpTo(CodeSpans, MaxSpans) \cup { <<>> },
        caption \in { <<>>, Plain("c") } }

VideoLocators ==
    { <<"y", "o", "u", "t", "u", "b", "e", ".", "c", "o", "m", "/", "w", "a", "t", "c", "h", "?", "v", "=", "a", "b", "&", "t", "=", "1">>,
      <<"y", "o", "u", "t", "u", ".", "b", "e", "/", "c", "d">>,
      <<"y", "o", "u", "t", "u", "b", "e", ".", "c", "o", "m", "/", "e", "m", "b", "e", "d", "/", "a", "b">>,
      <<"v", "i", "m", "e", "o", ".", "c", "o", "m", "/", "7", "6">>,
      <<"v", "i", "m", "e", "o", ".", "c", "o", "m", "/", "u", "s", "e", "r">>,
      <<"/", "v", ".", "m", "p", "4">> }

\* pages of one video, with or without a paragraph after it
VideoPages ==
    { <<Video(u)>> \o rest : u \in VideoLocators,
                             rest \in { <<>>, <<Paragraph(Plain("C"))>> } }

\* blocks without children, with and without a fragment
LeafBlocks ==
    { Paragraph(Plain("C")),
      Paragraph(<<TextSpan(<<"\n">>, NoAnnotations, <<>>)>>),
      Divider,
      Breadcrumb,
      Skipped("table_of_contents"),
      Skipped("child_page"),
      Skipped("child_database"),
      Skipped("unsupported") }

LeafPages == SeqsUpTo(LeafBlocks, MaxLeafBlocks)

Pages ==
    SeqsUpTo(ListBlocks, MaxListBlocks)
        \cup ImagePages
        \cup SeqsUpTo(TableBlocks, MaxTableBlocks)
        \cup ContainerPages
        \cup RichPages
        \cup CodePages
        \cup VideoPages
        \cup LeafPages
        \cup KindPages

Init ==
    /\ fs = <<>>
    /\ unlinks = {}
    /\ dl = NoCall
    /\ netCalls = 0
    /\ ncalls = 0
    /\ last = NoLast
    /\ page \in [blocks : Pages, slug : PageSlugs]
    /\ stack = <<>>
    /\ rphase = "idle"
    /\ run = [n |-> 0, net0 |-> 0, fallbacks |-> 0, fetchErrors |-> 0, issued |-> <<>>]
    /\ prev = [html |-> <<>>, fallbacks |-> 0]
    /\ out = <<>>
    /\ dir = <<>>
    /\ sync = NoSync
    /\ listing = NoListing

Next ==
    \/ StartRender
    \/ StepSimple
    \/ StepListItem
    \/ StepTable
    \/ StepContainer
    \/ StepColumnList
    \/ StepImage
    \/ ChildrenArrive
    \/ ChildrenFail
    \/ Return
    \/ ImageSettled
    \/ \E u \in Locators : Redirect(u)
    \/ RedirectNoLocation
    \/ \E c \in OtherStatuses : StatusOther(c)
    \/ Status200
    \/ PipeChunk
    \/ PipeFinish
    \/ PipeStall
    \/ RequestError
    \/ \E f \in unlinks : RunUnlink(f)

Spec == Init /\ [][Next]_vars

\* The render of a page of list items and paragraphs: the loop of blocksToHtml
\* with its list runs and their children, every request to the content API
\* being answered, and every step that can be taken being taken.
InitLoop ==
    /\ Init
    /\ page.blocks \in SeqsUpTo(ListBlocks, MaxLoopBlocks)

NextLoop ==
    \/ StartRender
    \/ StepSimple
    \/ StepListItem
    \/ ChildrenArrive
    \/ ChildrenFail
    \/ Return

FairLoop == InitLoop /\ [][NextLoop]_vars /\ WF_vars(NextLoop)

-----------------------------------------------------------------------------
(* The sync run: main, the paginated fetches and pushToProduction *)

DotHtml == <<".", "h", "t", "m", "l">>
IndexHtml == <<"i", "n", "d", "e", "x">> \o DotHtml

EndsWith(s, suffix) ==
    /\ Len(s) >= Len(suffix)
    /\ SubSeq(s, Len(s) - Len(suffix) + 1, Len(s)) = suffix

\* the characters the slug keeps: [a-z0-9]
SlugChars ==
    {"a", "b", "c", "d", "e", "f", "g", "h", "i", "j", "k", "l", "m", "n", "o", "p",
     "q", "r", "s", "t", "u", "v", "w", "x", "y", "z",
     "0", "1", "2", "3", "4", "5", "6", "7", "8", "9"}

\* slugify: lower case, every run of other characters becomes one "-", and a
\* "-" at the start and one at the end are removed
Slugify(text) ==
    LET lower  == ToLowerCase(text)
        dashed == Join([p \in 1..Len(lower) |->
                          IF lower[p] \in SlugChars THEN <<lower[p]>>
                          ELSE IF p > 1 /\ lower[p - 1] \notin SlugChars THEN <<>>
                          ELSE <<"-">>], <<>>)
        from   == IF dashed # <<>> /\ dashed[1] = "-" THEN 2 ELSE 1
        to     == IF Len(dashed) >= from /\ dashed[Len(dashed)] = "-"
                  THEN Len(dashed) - 1 ELSE Len(dashed)
    IN  SubSeq(dashed, from, to)

Untitled == <<"U", "n", "t", "i", "t", "l", "e", "d">>

\* getPageProperties: a page without a title is 'Untitled'
GetPageProperties(pg) ==
    LET title == IF pg.title = <<>> THEN Untitled ELSE pg.title
    IN  [title |-> title, slug |-> Slugify(title)]

\* the published posts of the database
PostA == [id |-> "page-A", title |-> <<"A", "l", "p", "h", "a", "!">>]
PostB == [id |-> "page-B", title |-> <<"B", " ", "&", " ", "b">>]
PostI == [id |-> "page-I", title |-> <<"I", "n", "d", "e", "x">>]
PostU == [id |-> "page-U", title |-> <<>>]

PageIds == {"page-A", "page-B", "page-I", "page-U"}

\* what notion.databases.query may return
PostLists == { <<>>, <<PostA>>, <<PostB, PostA>>, <<PostA, PostI>>, <<PostU>> }

\* the blocks of each post
PageBlocks(pageId) ==
    CASE pageId = "page-A" -> << Paragraph(Plain("C")), Toggle(ToggleId, Plain("G"), TRUE),
                                 Divider >>
      [] pageId = "page-B" -> << SyncedBlock("", FALSE, SyncedOriginal),
                                 Paragraph(Plain("C")) >>
      [] pageId = "page-I" -> << Paragraph(Plain("C")) >>
      [] OTHER -> << Quote("", Plain("u"), FALSE) >>

\* the whole list notion.blocks.children.list pages through
Server(block_id) ==
    IF block_id \in PageIds THEN PageBlocks(block_id) ELSE Children(block_id)

\* the cursors of the API are opaque strings, one per position of the list
CursorNames == <<"cursor-1", "cursor-2", "cursor-3", "cursor-4", "cursor-5">>
Position(cursor) ==
    IF cursor = "undefined" THEN 1
    ELSE CHOOSE k \in 1..Len(CursorNames) : CursorNames[k] = cursor

\* one response of notion.blocks.children.list: n results from start_cursor on
Response(block_id, start_cursor, n) ==
    LET all  == Server(block_id)
        from == Position(start_cursor)
        to   == IF from + n - 1 < Len(all) THEN from + n - 1 ELSE Len(all)
    IN  [results |-> SubSeq(all, from, to),
         has_more |-> to < Len(all),
         next_cursor |-> IF to < Len(all) THEN CursorNames[to + 1] ELSE "null"]

\* a loop that asks for the first page again
NextStartCursorUndefined(response) == "undefined"

\* cursor = response.next_cursor
NextStartCursor(response) == response.next_cursor

\* the entries of the thoughts directory
Directory == [kind |-> "dir", by |-> "", title |-> <<>>, body |-> <<>>]
OldFile == [kind |-> "file", by |-> "old", title |-> <<>>, body |-> <<>>]

\* generatePostHtml: the page template around the title and the content
GeneratePostHtml(title, htmlContent) ==
    [kind |-> "file", by |-> "post", title |-> title, body |-> htmlContent]

\* generateIndexHtml: the index template around the links to the posts, here
\* the slugs in the order of the posts
GenerateIndexHtml(posts) ==
    [kind |-> "file", by |-> "index", title |-> <<>>,
     body |-> Join([k \in 1..Len(posts) |-> posts[k].slug], <<",">>)]

\* fs.writeFileSync and fs.unlinkSync on the thoughts directory
WriteFileSync(d, name, entry) ==
    [n \in DOMAIN d \cup {name} |-> IF n = name THEN entry ELSE d[n]]
UnlinkSync(d, name) == [n \in DOMAIN d \ {name} |-> d[n]]

ImagesDir == <<"i", "m", "a", "g", "e", "s">>
OldHtml == <<"o", "l", "d">> \o DotHtml
AlphaHtml == <<"a", "l", "p", "h", "a">> \o DotHtml
NotesTxt == <<"n", "o", "t", "e", "s", ".", "t", "x", "t">>
HtmlBak == <<"o", "l", "d">> \o DotHtml \o <<".", "b", "a", "k">>

\* the thoughts directory before the run
DirStates ==
    { (ImagesDir :> Directory),
      (ImagesDir :> Directory) @@ (IndexHtml :> OldFile) @@ (AlphaHtml :> OldFile),
      (ImagesDir :> Directory) @@ (IndexHtml :> OldFile) @@ (AlphaHtml :> OldFile)
          @@ (OldHtml :> OldFile) @@ (NotesTxt :> OldFile) @@ (HtmlBak :> OldFile) }

\* the image cache before the run
CachedImage == <<"post", "-", "0", "0", ".", "j", "p", "g">>
CacheBefore == (CachedImage :> CompleteFile(<<"/", "x", ".", "j", "p", "g">>))

\* what git status --porcelain may print
StatusOutputs == { <<>>, <<" ", "\n">>, <<" ", "M", " ", "t", "\n">> }

Whitespace == {" ", "\n", "\t"}

\* String.prototype.trim
Trim(s) ==
    LET solid == { p \in 1..Len(s) : s[p] \notin Whitespace }
    IN  IF solid = {} THEN <<>>
        ELSE SubSeq(s, CHOOSE p \in solid : \A q \in solid : p <= q,
                       CHOOSE p \in solid : \A q \in solid : q <= p)

\* the post the loop of main is at
Post == sync.pages[sync.p]

\* process.exit(1) in a catch block
Exit1 == [sync EXCEPT !.pc = "exit1"]

\* const pages = await fetchPosts(); generatedFiles = new Set(['index.html'])
FetchPosts(pages) ==
    /\ sync.pc = "start"
    /\ sync' = [sync EXCEPT !.pages = pages, !.p = 1, !.generatedFiles = {IndexHtml},
                            !.pc = IF pages = <<>> THEN "index" ELSE "content"]
    /\ UNCHANGED <<fs, unlinks, dl, netCalls, clientVars, renderVars, dir, listing>>

\* fetchPageContent or fetchBlockChildren is called: the first request of the
\* loop carries start_cursor undefined
ListBegin ==
    /\ listing.pc # "waiting"
    /\ \/ sync.pc = "content"
       \/ sync.pc = "render" /\ rphase = "running" /\ stack # <<>> /\ Top.wait = "children"
    /\ listing' = [pc |-> "waiting",
                   fn |-> IF sync.pc = "content" THEN "fetchPageContent"
                          ELSE "fetchBlockChildren",
                   block_id |-> IF sync.pc = "content" THEN Post.id ELSE Top.fetching,
                   blocks |-> <<>>, cursor |-> "undefined", sent |-> <<"undefined">>,
                   log |-> <<>>]
    /\ UNCHANGED <<fs, unlinks, dl, netCalls, clientVars, renderVars, dir, sync>>

\* a response arrives: its results are pushed; with has_more the next request
\* is made, without it the blocks are returned, to main (which calls
\* blocksToHtml on them) or to the activation of blocksToHtml that waits
ListResponse(n) ==
    /\ listing.pc = "waiting"
    /\ LET response == Response(listing.block_id, listing.cursor, n)
           blocks   == listing.blocks \o response.results
       IN  IF response.has_more
           THEN /\ listing' = [listing EXCEPT !.blocks = blocks,
                                              !.cursor = NextStartCursor(response),
                                              !.sent = Append(@, NextStartCursor(response)),
                                              !.log = Append(@, response)]
                /\ UNCHANGED <<renderVars, sync>>
           ELSE /\ listing' = [listing EXCEPT !.pc = "returned", !.blocks = blocks,
                                              !.log = Append(@, response)]
                /\ IF listing.fn = "fetchPageContent"
                   THEN /\ page' = [blocks |-> blocks, slug |-> GetPageProperties(Post).slug]
                        /\ stack' = <<NewFrame(blocks, GetPageProperties(Post).slug)>>
                        /\ rphase' = "running"
                        /\ run' = [n |-> run.n + 1, net0 |-> netCalls, fallbacks |-> 0,
                                   fetchErrors |-> 0, issued |-> <<>>]
                        /\ out' = <<>>
                        /\ sync' = [sync EXCEPT !.pc = "render"]
                        /\ UNCHANGED prev
                   ELSE /\ stack' = StackAfterChildren(blocks)
                        /\ run' = Logged(stack'[Len(stack')])
                        /\ UNCHANGED <<page, rphase, prev, out, sync>>
    /\ UNCHANGED <<fs, unlinks, dl, netCalls, clientVars, dir>>

\* a request throws: out of fetchPageContent into the catch of main, out of
\* fetchBlockChildren into the render
ListFail ==
    /\ listing.pc = "waiting"
    /\ listing' = [listing EXCEPT !.pc = "failed"]
    /\ IF listing.fn = "fetchPageContent"
       THEN /\ sync' = Exit1
            /\ UNCHANGED renderVars
       ELSE /\ Thrown
            /\ UNCHANGED <<page, prev, out, sync>>
    /\ UNCHANGED <<fs, unlinks, dl, netCalls, clientVars, dir>>

\* blocksToHtml has thrown: the catch of main
RenderFailed ==
    /\ sync.pc = "render"
    /\ rphase = "failed"
    /\ sync' = Exit1
    /\ UNCHANGED <<fs, unlinks, dl, netCalls, clientVars, renderVars, dir, listing>>

\* a main that goes on whichever way blocksToHtml has ended
BlocksToHtmlSettled == rphase \in {"done", "failed"}

\* the await of blocksToHtml(blocks, slug) has given main the html
BlocksToHtmlReturned == rphase = "done"

\* blocksToHtml has returned: the post is written and recorded, and the loop
\* goes to the next post
WritePost ==
    /\ sync.pc = "render"
    /\ BlocksToHtmlReturned
    /\ LET props    == GetPageProperties(Post)
           filename == props.slug \o DotHtml
       IN  /\ dir' = WriteFileSync(dir, filename, GeneratePostHtml(props.title, out))
           /\ sync' = [sync EXCEPT !.generatedFiles = @ \cup {filename},
                                   !.posts = Append(@, props),
                                   !.p = @ + 1,
                                   !.pc = IF sync.p < Len(sync.pages) THEN "content"
                                          ELSE "index"]
    /\ UNCHANGED <<fs, unlinks, dl, netCalls, clientVars, renderVars, listing>>

\* the index page is written
WriteIndex ==
    /\ sync.pc = "index"
    /\ dir' = WriteFileSync(dir, IndexHtml, GenerateIndexHtml(sync.posts))
    /\ sync' = [sync EXCEPT !.pc = "readdir"]
    /\ UNCHANGED <<fs, unlinks, dl, netCalls, clientVars, renderVars, listing>>

\* a cleanup that looks at every name of the directory
IsHtmlNameAny(f) == TRUE

\* the names the cleanup looks at: f.endsWith('.html')
IsHtmlName(f) == EndsWith(f, DotHtml)

\* existingFiles = fs.readdirSync(thoughtsDir).filter(...)
ReadDir ==
    /\ sync.pc = "readdir"
    /\ sync' = [sync EXCEPT !.existingFiles = { f \in DOMAIN dir : IsHtmlName(f) },
                            !.deletedCount = 0, !.pc = "cleanup"]
    /\ UNCHANGED <<fs, unlinks, dl, netCalls, clientVars, renderVars, dir, listing>>

\* one turn of the cleanup loop, in the order readdirSync gave
CleanupFile(file) ==
    /\ sync.pc = "cleanup"
    /\ file \in sync.existingFiles
    /\ IF file \notin sync.generatedFiles
       THEN /\ dir' = UnlinkSync(dir, file)
            /\ sync' = [sync EXCEPT !.existingFiles = @ \ {file}, !.deletedCount = @ + 1]
       ELSE /\ sync' = [sync EXCEPT !.existingFiles = @ \ {file}]
            /\ UNCHANGED dir
    /\ UNCHANGED <<fs, unlinks, dl, netCalls, clientVars, renderVars, listing>>

\* where main goes after the cleanup: process.argv.includes('--push')
AfterCleanup(push) == IF push THEN "status" ELSE "exit0"

\* the cleanup loop is over: the run has synced, and pushes when asked to
CleanupDone ==
    /\ sync.pc = "cleanup"
    /\ sync.existingFiles = {}
    /\ sync' = [sync EXCEPT !.cleaned = TRUE, !.pc = AfterCleanup(sync.push)]
    /\ UNCHANGED <<fs, unlinks, dl, netCalls, clientVars, renderVars, dir, listing>>

\* a pushToProduction that stages whatever git status printed
AfterStatusAlwaysAdd(status) == "add"

\* where pushToProduction goes after git status: if (!status.trim()) return
AfterStatus(status) == IF Trim(status) = <<>> THEN "exit0" ELSE "add"

GitStatus(status) ==
    /\ sync.pc = "status"
    /\ sync' = [sync EXCEPT !.git = Append(@, "status"), !.status = status,
                            !.pc = AfterStatus(status)]
    /\ UNCHANGED <<fs, unlinks, dl, netCalls, clientVars, renderVars, dir, listing>>

GitAdd ==
    /\ sync.pc = "add"
    /\ sync' = [sync EXCEPT !.git = Append(@, "add"), !.pc = "commit"]
    /\ UNCHANGED <<fs, unlinks, dl, netCalls, clientVars, renderVars, dir, listing>>

GitCommit ==
    /\ sync.pc = "commit"
    /\ sync' = [sync EXCEPT !.git = Append(@, "commit"), !.pc = "push"]
    /\ UNCHANGED <<fs, unlinks, dl, netCalls, clientVars, renderVars, dir, listing>>

GitPush ==
    /\ sync.pc = "push"
    /\ sync' = [sync EXCEPT !.git = Append(@, "push"), !.pc = "exit0"]
    /\ UNCHANGED <<fs, unlinks, dl, netCalls, clientVars, renderVars, dir, listing>>

\* fetchPosts, writeFileSync, readdirSync or unlinkSync throws: the catch of main
MainThrows ==
    /\ \/ sync.pc \in {"start", "index", "readdir"}
       \/ sync.pc = "render" /\ rphase = "done"
       \/ sync.pc = "cleanup" /\ sync.existingFiles \ sync.generatedFiles # {}
    /\ sync' = Exit1
    /\ UNCHANGED <<fs, unlinks, dl, netCalls, clientVars, renderVars, dir, listing>>

\* a git command fails: the catch of pushToProduction
PushThrows ==
    /\ sync.pc \in {"status", "add", "commit", "push"}
    /\ sync' = [sync EXCEPT !.git = Append(@, sync.pc), !.pc = "exit1"]
    /\ UNCHANGED <<fs, unlinks, dl, netCalls, clientVars, renderVars, dir, listing>>

\* main is called, with or without --push
InitSync ==
    /\ fs = CacheBefore
    /\ unlinks = {}
    /\ dl = NoCall
    /\ netCalls = 0
    /\ ncalls = 0
    /\ last = NoLast
    /\ page = [blocks |-> <<>>, slug |-> <<>>]
    /\ stack = <<>>
    /\ rphase = "idle"
    /\ run = [n |-> 0, net0 |-> 0, fallbacks |-> 0, fetchErrors |-> 0, issued |-> <<>>]
    /\ prev = [html |-> <<>>, fallbacks |-> 0]
    /\ out = <<>>
    /\ dir \in DirStates
    /\ sync \in { [NoSync EXCEPT !.pc = "start", !.push = flag] : flag \in BOOLEAN }
    /\ listing = NoListing

NextSync ==
    \/ \E pages \in PostLists : FetchPosts(pages)
    \/ ListBegin
    \/ \E n \in 1..MaxPageSize : ListResponse(n)
    \/ ListFail
    \/ StepSimple
    \/ StepContainer
    \/ Return
    \/ RenderFailed
    \/ WritePost
    \/ WriteIndex
    \/ ReadDir
    \/ \E file \in sync.existingFiles : CleanupFile(file)
    \/ CleanupDone
    \/ \E status \in StatusOutputs : GitStatus(status)
    \/ GitAdd
    \/ GitCommit
    \/ GitPush
    \/ MainThrows
    \/ PushThrows

SpecSync == InitSync /\ [][NextSync]_vars

-----------------------------------------------------------------------------
(* Claims about downloadImage, checked under SpecResolve *)

\* a step in which downloadImage is invoked: by the client, or for a redirect
Invoked == (dl.pc = "idle" /\ dl'.pc # "idle") \/ dl'.hops = dl.hops + 1

\* C2: for a fixed slug, two locators with the same part before the first "?"
\* are given the same local filename: the call in progress and the call
\* collected before it, when they were made with such locators, computed equal
\* filenames, and so does every other locator with that stable part.
C2_StableCacheKey ==
    /\ (dl.pc # "idle" /\ dl.hops = 0 /\ last # NoLast
            /\ last.slug = dl.slug
            /\ SplitFirst(last.url, "?") = SplitFirst(dl.url, "?"))
        => dl.filename = last.filename
    /\ dl.pc # "idle" =>
            \A u \in Locators :
                SplitFirst(u, "?") = SplitFirst(dl.url, "?")
                    => Filename(u, dl.slug) = dl.filename

C2_Witness ==
    /\ dl.pc = "resolved" /\ dl.hops = 0 /\ dl.skipped
    /\ last # NoLast
    /\ last.slug = dl.slug
    /\ last.url # dl.url
    /\ SplitFirst(last.url, "?") = SplitFirst(dl.url, "?")
    /\ Len(last.url) > Len(SplitFirst(last.url, "?"))
    /\ Len(dl.url) > Len(SplitFirst(dl.url, "?"))
    /\ Ext(dl.url) = <<".", "j", "p", "g">>

\* C3: an invocation that finds a file at its computed local path resolves at
\* once with that relative path and skipped = true, issues no request, and
\* leaves every file (and the queue of unlinks) as it was.
C3_CacheHit ==
    [][ (Invoked /\ dl'.filename \in DOMAIN fs)
          => /\ dl'.pc = "resolved"
             /\ dl'.skipped
             /\ dl'.path = <<"images/">> \o dl'.filename
             /\ fs' = fs
             /\ netCalls' = netCalls
             /\ unlinks' = unlinks ]_vars

C3_Witness ==
    /\ dl.pc = "resolved" /\ dl.skipped /\ dl.hops = 0
    /\ dl.filename \in DOMAIN fs
    /\ fs[dl.filename].bytes = "complete"
    /\ netCalls = 1

\* C4: a status other than 200, 301, 302 rejects the promise with an error that
\* carries the status, and then no file exists at the computed local path.
C4_NoFileAfterStatusFailure ==
    (dl.pc = "rejected" /\ dl.err = "status")
        => (dl.status \in OtherStatuses /\ dl.filename \notin DOMAIN fs)

\* C5: when a transport error rejects the promise, the file at the computed
\* local path is gone at the moment the rejection reaches the caller.
C5_RemovedBeforeDelivery ==
    [][ (dl.pc = "rejected" /\ dl.err = "transport" /\ dl'.pc = "idle")
          => dl.filename \notin DOMAIN fs ]_vars

\* C6: a call that followed at least one redirect, and whose final entry did not
\* exist when the call was made, resolves with the entry of the final URL, after
\* downloading the final resource exactly once into that entry.
C6_RedirectDownloadsOnce ==
    (dl.pc = "resolved" /\ dl.hops >= 1 /\ dl.filename \notin dl.had)
        => /\ dl.path = RelativePath(dl.url, dl.slug)
           /\ dl.downloads = 1
           /\ ~dl.skipped
           /\ dl.filename \in DOMAIN fs
           /\ fs[dl.filename] = CompleteFile(dl.url)

\* C20: once every call has settled and been delivered and no removal is
\* pending, every file of the images directory holds the complete bytes of a
\* successful fetch; and whenever a call has resolved with a local path,
\* skipped or not, the file at that path exists and is complete.
C20_OnlyCompleteEntries ==
    /\ (dl.pc = "idle" /\ unlinks = {})
          => \A f \in DOMAIN fs : fs[f].bytes = "complete"
    /\ dl.pc = "resolved"
          => (dl.filename \in DOMAIN fs /\ fs[dl.filename].bytes = "complete")

-----------------------------------------------------------------------------
(* Reading a fragment back *)

\* the number of lists open after the p-th token of html
Depth(html, p) ==
    Cardinality({ q \in 1..p : html[q] \in {"<ul>", "<ol>"} })
        - Cardinality({ q \in 1..p : html[q] \in {"</ul>", "</ol>"} })

\* the positions of the separators of the outermost join: those inside no list
Cuts(html) == { p \in 1..Len(html) : html[p] = Separator[1] /\ Depth(html, p) = 0 }

\* the j-th smallest member of a set of positions
Nth(positions, j) ==
    CHOOSE p \in positions : Cardinality({ q \in positions : q < p }) = j - 1

\* the fragments of the outermost join: html cut at the separators that are
\* not inside a list
Fragments(html) ==
    IF html = <<>> THEN <<>>
    ELSE LET cuts == Cuts(html)
             n == Cardinality(cuts) + 1
         IN  [ j \in 1..n |->
                 SubSeq(html,
                        IF j = 1 THEN 1 ELSE Nth(cuts, j - 1) + 1,
                        IF j = n THEN Len(html) ELSE Nth(cuts, j) - 1) ]

\* what follows each <li> of the outermost list of a fragment, in order
ItemTexts(html) ==
    LET items == { p \in 1..Len(html) : html[p] = "<li>" /\ Depth(html, p) = 1 }
    IN  [ j \in 1..Cardinality(items) |-> html[Nth(items, j) + 1] ]

IsCellOrRowTag(t) == t \in {"<tr>", "<th>", "<td>"}

IsTableFragment(frag) == frag # <<>> /\ Head(frag) = "<table class=\"notion-table\">"

IsTableWithRows(b) == b.type = "table" /\ b.has_children

IsListPage == page.blocks \in SeqsUpTo(ListBlocks, MaxListBlocks)

IsImagePage == page.blocks \in ImagePages

IsTablePage == page.blocks \in SeqsUpTo(TableBlocks, MaxTableBlocks)

-----------------------------------------------------------------------------
(* Claims about blocksToHtml, checked under Spec *)

C7_ImageFallback ==
    IsImagePage =>
        /\ rphase # "failed"
        /\ rphase = "done" =>
            LET frags == Fragments(out)
                remote == { k \in 1..Len(frags) :
                              /\ page.blocks[k].type = "image"
                              /\ frags[k] = FigureHtml(ImageUrl(page.blocks[k]),
                                                       RichTextToHtml(page.blocks[k].caption)) }
                local == { k \in 1..Len(frags) :
                              /\ page.blocks[k].type = "image"
                              /\ \E u \in Locators :
                                    frags[k] = FigureHtml(RelativePath(u, page.slug),
                                                          RichTextToHtml(page.blocks[k].caption)) }
            IN  /\ Len(frags) = Len(page.blocks)
                /\ \A k \in 1..Len(frags) :
                      IF page.blocks[k].type = "image"
                      THEN k \in remote \cup local
                      ELSE frags[k] = <<"<p>", "C", "</p>">>
                /\ Cardinality(remote) = run.fallbacks

C7_Witness ==
    /\ rphase = "done" /\ run.n = 1 /\ run.fallbacks = 1
    /\ Len(page.blocks) = 2
    /\ page.blocks[1].type = "image"
    /\ page.blocks[2].type = "paragraph"
    /\ out = FigureHtml(<<"/", "j", "?", "s">>, <<"c">>) \o Separator \o <<"<p>", "C", "</p>">>

\* the blocks of the page that start a fragment: a block that is no list item,
\* or the first item of a maximal run of items of one list type
StartsGroup(k) ==
    \/ page.blocks[k].type \notin ListTypes
    \/ k = 1
    \/ page.blocks[k - 1].type # page.blocks[k].type

GroupStarts == { k \in 1..Len(page.blocks) : StartsGroup(k) }

\* the j-th smallest block index that starts a group
GroupStart(j) ==
    CHOOSE k \in GroupStarts : Cardinality({ m \in GroupStarts : m < k }) = j - 1

\* the last block index of the group that starts at k
GroupEnd(k) ==
    CHOOSE e \in k..Len(page.blocks) :
        /\ \A m \in (k + 1)..e : ~StartsGroup(m)
        /\ (e = Len(page.blocks) \/ StartsGroup(e + 1))

\* C8: the fragment of a page of list items and paragraphs holds one fragment
\* per maximal run of items of one list type and one per paragraph, in the
\* order of the blocks; the fragment of a run is one ul (bulleted) or ol
\* (numbered) wrapper whose own items are the blocks of the run, in order.
C8_ListGrouping ==
    (IsListPage /\ rphase = "done") =>
        LET frags == Fragments(out)
        IN  /\ Len(frags) = Cardinality(GroupStarts)
            /\ \A j \in 1..Len(frags) :
                  LET k == GroupStart(j)
                      e == GroupEnd(k)
                      type == page.blocks[k].type
                      frag == frags[j]
                  IN  IF type = "paragraph"
                      THEN frag = <<"<p>", "C", "</p>">>
                      ELSE /\ Head(frag) = (IF type = "bulleted_list_item" THEN "<ul>" ELSE "<ol>")
                           /\ frag[Len(frag)] = (IF type = "bulleted_list_item" THEN "</ul>" ELSE "</ol>")
                           /\ Count(SubSeq(frag, 2, Len(frag) - 1), Head(frag)) =
                                Count(SubSeq(frag, 2, Len(frag) - 1), frag[Len(frag)])
                           /\ ItemTexts(frag) =
                                [n \in 1..(e - k + 1) |-> page.blocks[k + n - 1].rich_text[1].plain_text[1]]

C8_Witness ==
    /\ rphase = "done"
    /\ page.blocks = << BulletedItem("", Plain("A"), FALSE), BulletedItem("", Plain("A"), FALSE),
                        Paragraph(Plain("C")), BulletedItem("", Plain("A"), FALSE) >>
    /\ out = <<"<ul>", "\n", "<li>", "A", "</li>", "\n", "<li>", "A", "</li>", "\n", "</ul>">>
                \o Separator \o <<"<p>", "C", "</p>">> \o Separator
                \o <<"<ul>", "\n", "<li>", "A", "</li>", "\n", "</ul>">>

\* C9: children are fetched only for a list item that declares them, for the id
\* of that item; they are rendered by an activation with the slug of the
\* enclosing one; and the result goes into the item's own li, after its text
\* and a newline and before the closing tag, as one item of the run.
C9_NestedChildren ==
    [][ /\ \A n \in 1..Len(stack') :
              LET f == stack'[n]
              IN  /\ (f.wait \in {"children", "render"} /\ f.blocks[f.i].type \in ListTypes)
                        => f.blocks[f.i].has_children
                  /\ (f.wait = "children" /\ f.blocks[f.i].type \in ListTypes)
                        => f.fetching = f.blocks[f.i].id
                  /\ (n > 1 /\ stack'[n - 1].blocks[stack'[n - 1].i].type \in ListTypes)
                        => /\ f.slug = stack'[n - 1].slug
                           /\ f.blocks = Children(stack'[n - 1].blocks[stack'[n - 1].i].id)
        /\ (/\ Len(stack) >= 2 /\ Len(stack') = Len(stack) - 1
            /\ stack[Len(stack) - 1].blocks[stack[Len(stack) - 1].i].type \in ListTypes
            /\ run'.fetchErrors = run.fetchErrors)
              => LET parent == stack[Len(stack) - 1]
                     child == stack[Len(stack)]
                     after == stack'[Len(stack')]
                     item == <<"<li>">> \o RichTextToHtml(parent.blocks[parent.i].rich_text)
                                \o <<"\n">> \o Join(child.htmlParts, Separator) \o <<"</li>">>
                     items == Append(parent.listItems, item)
                 IN  IF after.listType = "none"
                     THEN /\ after.htmlParts = Append(parent.htmlParts, ListHtml(parent.listType, items))
                          /\ (after.i > Len(after.blocks) \/ after.blocks[after.i].type # parent.listType)
                     ELSE /\ after.listItems = items
                          /\ after.i = parent.i + 1
                          /\ after.htmlParts = parent.htmlParts ]_vars

C9_Witness ==
    /\ rphase = "done"
    /\ page.blocks = << BulletedItem(ItemB, Plain("B"), TRUE) >>
    /\ out = <<"<ul>", "\n", "<li>", "B", "\n",
                 "<ul>", "\n", "<li>", "x", "\n",
                    "<ol>", "\n", "<li>", "z", "\n",
                       "<p>", "w", "</p>", "\n\n                    ",
                       "<ol>", "\n", "<li>", "v", "</li>", "\n", "</ol>",
                    "</li>", "\n", "</ol>",
                 "</li>", "\n", "<li>", "y", "</li>", "\n", "</ul>",
               "</li>", "\n", "</ul>">>

\* C10: in the fragment of every table with rows, the cell at row r and column
\* c is a th exactly when the table has a column header and r is the first
\* row, or has a row header and c is the first column; it is a td otherwise.
C10_TableHeaders ==
    (IsTablePage /\ rphase = "done") =>
        LET tables == SelectSeq(page.blocks, IsTableWithRows)
            frags == SelectSeq(Fragments(out), IsTableFragment)
        IN  /\ Len(frags) = Len(tables)
            /\ \A j \in 1..Len(frags) :
                  LET tags == SelectSeq(frags[j], IsCellOrRowTag)
                      rows == Children(tables[j].id)
                  IN  /\ Len(tags) = Len(rows) * (Len(rows[1].cells) + 1)
                      /\ \A r \in 1..Len(rows) :
                            /\ tags[(r - 1) * (Len(rows[1].cells) + 1) + 1] = "<tr>"
                            /\ \A c \in 1..Len(rows[r].cells) :
                                  tags[(r - 1) * (Len(rows[1].cells) + 1) + 1 + c] =
                                      (IF (tables[j].has_column_header /\ r = 1)
                                            \/ (tables[j].has_row_header /\ c = 1)
                                       THEN "<th>" ELSE "<td>")

C10_Witness ==
    /\ rphase = "done"
    /\ page.blocks = << Table(TableId, TRUE, TRUE, TRUE) >>
    /\ SubSeq(out, 1, 3) = <<"<table class=\"notion-table\">", "<tr>", "<th>">>
    /\ Count(out, "<th>") = 5
    /\ Count(out, "<td>") = 4

-----------------------------------------------------------------------------
(* Claims about errors and the order of fetches, checked under Spec *)

IsContainerPage == page.blocks \in ContainerPages

\* a step in which an awaited fetchBlockChildren throws
FetchFails == run'.fetchErrors = run.fetchErrors + 1

\* C11: when the fetch of the children of the original of a synced reference
\* fails, the render does not fail: the activation at the reference pushes no
\* fragment for it and goes on with the block after it.
C11_SyncedFailureRecoverable ==
    [][ (FetchFails /\ IsSyncedReference(Block))
          => /\ rphase' = "running"
             /\ stack' = SetTop([Top EXCEPT !.wait = "none", !.fetching = "",
                                            !.i = @ + 1]) ]_vars

C11_Witness ==
    /\ rphase = "done"
    /\ run.fetchErrors = 1
    /\ page.blocks = << SyncedBlock("", FALSE, SyncedOriginal), Paragraph(Plain("C")) >>
    /\ out = <<"<p>", "C", "</p>">>

\* C12: a failed fetch of children that is not the fetch a synced reference
\* makes for its original fails the whole render: no activation goes on and no
\* fragment is returned.
C12_FatalErrorsPropagate ==
    [][ (FetchFails /\ ~IsSyncedReference(Block))
          => (rphase' = "failed" /\ stack' = <<>> /\ out' = <<>>) ]_vars

\* the fetches of children and the image downloads that are in flight
InFlight ==
    Cardinality({ n \in 1..Len(stack) : stack[n].wait = "children" })
        + (IF dl.pc \in {"waiting", "piping", "hung"} THEN 1 ELSE 0)

RECURSIVE DocOrder(_)
RECURSIVE ColumnsOrder(_)
\* the fetches a sequence of blocks asks for, depth first and left to right,
\* when every fetch succeeds
DocOrder(blocks) ==
    IF blocks = <<>> THEN <<>>
    ELSE LET b == Head(blocks)
             own == CASE b.type = "image" -> <<ImageFetch(ImageUrl(b))>>
                      [] b.type = "table" ->
                            IF b.has_children THEN <<ChildFetch(b.id)>> ELSE <<>>
                      [] b.type = "column_list" ->
                            IF b.has_children
                            THEN <<ChildFetch(b.id)>> \o ColumnsOrder(Children(b.id))
                            ELSE <<>>
                      [] b.type = "synced_block" /\ b.synced_from # "" ->
                            <<ChildFetch(b.synced_from)>> \o DocOrder(Children(b.synced_from))
                      [] b.type \in ListTypes \cup ContainerTypes
                            /\ ~(b.type = "synced_block" /\ b.synced_from # "") ->
                            IF b.has_children
                            THEN <<ChildFetch(b.id)>> \o DocOrder(Children(b.id))
                            ELSE <<>>
                      [] OTHER -> <<>>
         IN  own \o DocOrder(Tail(blocks))

ColumnsOrder(columns) ==
    IF columns = <<>> THEN <<>>
    ELSE LET col == Head(columns)
         IN  (IF col.type = "column" /\ col.has_children
              THEN <<ChildFetch(col.id)>> \o DocOrder(Children(col.id))
              ELSE <<>>) \o ColumnsOrder(Tail(columns))

IsPrefix(a, b) == Len(a) <= Len(b) /\ SubSeq(b, 1, Len(a)) = a

\* C13: during a render at most one fetch of children or image download is in
\* flight, a new one is issued only when none is, and the fetches issued so
\* far are the first ones of the document in depth-first, left-to-right order
\* (all of them once the render is done), as long as no fetch was skipped
\* after a caught failure.
C13_SequentialFetching ==
    /\ InFlight <= 1
    /\ (rphase \in {"running", "done"} /\ run.fetchErrors = 0)
          => IsPrefix(run.issued, DocOrder(page.blocks))
    /\ (rphase = "done" /\ run.fetchErrors = 0)
          => run.issued = DocOrder(page.blocks)

C13_Witness ==
    /\ rphase = "done"
    /\ page.blocks = << ColumnList(ColumnListId, TRUE), Toggle(ToggleId, Plain("G"), TRUE) >>
    /\ run.issued = << ChildFetch(ColumnListId), ChildFetch(ColumnLeft),
                       ChildFetch(ColumnRight), ImageFetch(<<"/", "j">>),
                       ChildFetch(ToggleId) >>

-----------------------------------------------------------------------------
(* Claims about richTextToHtml, checked under Spec on pages of one paragraph *)

\* pages of one paragraph of one span "a<"
IsSpanPage == page.blocks \in { <<Paragraph(<<t>>)>> : t \in AnnotatedSpans }

Span == page.blocks[1].rich_text[1]

IsLinked == Span.href # <<>>

IsColoured == Span.annotations.color \notin {"", "default"}

AnnotationNames == <<"strong", "em", "del", "u", "code">>

IsActive(name) ==
    CASE name = "strong" -> Span.annotations.bold
      [] name = "em" -> Span.annotations.italic
      [] name = "del" -> Span.annotations.strikethrough
      [] name = "u" -> Span.annotations.underline
      [] name = "code" -> Span.annotations.code

NActive == Cardinality({ n \in 1..Len(AnnotationNames) : IsActive(AnnotationNames[n]) })

Range(s) == { s[n] : n \in 1..Len(s) }

\* what the paragraph element of the output encloses
ParagraphContent == SubSeq(out, 2, Len(out) - 1)

\* the content without the first open tokens and the last close tokens
Inside(s, open, close) == SubSeq(s, open + 1, Len(s) - close)

\* what the hyperlink element encloses, or everything when there is no link
InsideLink ==
    IF IsLinked THEN Inside(ParagraphContent, 4 + Len(Span.href), 4) ELSE ParagraphContent

\* what the colour wrapper encloses, or everything inside the link
InsideColour == IF IsColoured THEN Inside(InsideLink, 5, 4) ELSE InsideLink

\* the names of the annotation elements opened around the text, outermost first
OpenNames == [ j \in 1..NActive |-> InsideColour[3 * (j - 1) + 2] ]

\* the active annotations, in the order of a list of names
ActiveIn(names) == SelectSeq(names, IsActive)

Reversed(s) == [ n \in 1..Len(s) |-> s[Len(s) + 1 - n] ]

RECURSIVE Concat(_)
Concat(parts) == IF parts = <<>> THEN <<>> ELSE Head(parts) \o Concat(Tail(parts))

\* C14: the paragraph of one span "a<" is, from the outside in: the hyperlink
\* element when the span has a link and none otherwise; the colour wrapper
\* when a colour other than default is set and none otherwise; one element per
\* active annotation, properly nested; and the escaped text in the middle.
\* The paragraph of several spans is the concatenation of what each span
\* renders to alone, in the order of the spans (trimmed of outer line breaks).
C14_StageOrder ==
    /\ (IsSpanPage /\ rphase = "done") =>
          LET c == ParagraphContent
              text == <<"a", "&", "l", "t", ";">>
              k == NActive
          IN  /\ Head(out) = "<p>" /\ out[Len(out)] = "</p>"
              /\ IF IsLinked
                 THEN /\ SubSeq(c, 1, 4 + Len(Span.href)) =
                            <<"<", "a href=\"">> \o Span.href \o <<"\"", ">">>
                      /\ SubSeq(c, Len(c) - 3, Len(c)) = <<"<", "/", "a", ">">>
                 ELSE "a href=\"" \notin Range(c)
              /\ IF IsColoured
                 THEN /\ SubSeq(InsideLink, 1, 5) =
                            <<"<", "span class=\"text-", Span.annotations.color, "\"", ">">>
                      /\ SubSeq(InsideLink, Len(InsideLink) - 3, Len(InsideLink)) =
                            <<"<", "/", "span", ">">>
                 ELSE "span class=\"text-" \notin Range(c)
              /\ Len(InsideColour) = 3 * k + Len(text) + 4 * k
              /\ SubSeq(InsideColour, 3 * k + 1, 3 * k + Len(text)) = text
              /\ \A j \in 1..k :
                    /\ IsActive(OpenNames[j])
                    /\ SubSeq(InsideColour, 3 * (j - 1) + 1, 3 * j) = <<"<", OpenNames[j], ">">>
                    /\ SubSeq(InsideColour, Len(InsideColour) - 4 * j + 1,
                              Len(InsideColour) - 4 * (j - 1)) = <<"<", "/", OpenNames[j], ">">>
              /\ \A i, j \in 1..k : i # j => OpenNames[i] # OpenNames[j]
    /\ (page.blocks \in RichPages /\ rphase = "done") =>
          LET rich_text == page.blocks[1].rich_text
              each == Concat([ n \in 1..Len(rich_text) |-> RichTextToHtml(<<rich_text[n]>>) ])
          IN  out = IF TrimBr(each) = <<>> THEN <<>>
                    ELSE <<"<p>">> \o TrimBr(each) \o <<"</p>">>

C14_Witness ==
    /\ rphase = "done"
    /\ page.blocks = << Paragraph(<< TextSpan(<<"a", "<">>,
                            [bold |-> TRUE, italic |-> FALSE, strikethrough |-> FALSE,
                             underline |-> FALSE, code |-> TRUE, color |-> "red"],
                            <<"h">>) >>) >>
    /\ out = <<"<p>", "<", "a href=\"", "h", "\"", ">",
                 "<", "span class=\"text-", "red", "\"", ">",
                 "<", "code", ">", "<", "strong", ">",
                 "a", "&", "l", "t", ";",
                 "<", "/", "strong", ">", "<", "/", "code", ">",
                 "<", "/", "span", ">", "<", "/", "a", ">", "</p>">>

\* C15 as stated: the elements of the active annotations nest in the order
\* bold, italic, strikethrough, underline, inline code, the bold element
\* outermost and the inline-code element innermost.
C15_BoldOutermost ==
    (IsSpanPage /\ rphase = "done") => OpenNames = ActiveIn(AnnotationNames)

\* C15 as amended: the elements of the active annotations nest in one fixed
\* order, the same for every span and every render: inline code outermost,
\* then underline, strikethrough, italic, and bold innermost.
C15_CodeOutermost ==
    /\ (IsSpanPage /\ rphase = "done") => OpenNames = ActiveIn(Reversed(AnnotationNames))
    /\ (IsSpanPage /\ rphase = "done" /\ run.n = 2) => out = prev.html

C15_Witness ==
    /\ rphase = "done"
    /\ run.n = 2
    /\ IsSpanPage
    /\ NActive = 5
    /\ ~IsLinked /\ ~IsColoured
    /\ out = <<"<p>", "<", "code", ">", "<", "u", ">", "<", "del", ">", "<", "em", ">",
                 "<", "strong", ">", "a", "&", "l", "t", ";",
                 "<", "/", "strong", ">", "<", "/", "em", ">", "<", "/", "del", ">",
                 "<", "/", "u", ">", "<", "/", "code", ">", "</p>">>

-----------------------------------------------------------------------------
(* Claims about the code case, checked under Spec on pages of one code block *)

IsCodePage == page.blocks \in CodePages

\* the text of the code block as the content API gave it
RawCode ==
    LET rich_text == page.blocks[1].rich_text
    IN  Concat([ n \in 1..Len(rich_text) |-> rich_text[n].plain_text ])

\* the entity that stands for a character, or the character itself
Entity(c) ==
    CASE c = "&" -> <<"&", "a", "m", "p", ";">>
      [] c = "<" -> <<"&", "l", "t", ";">>
      [] c = ">" -> <<"&", "g", "t", ";">>
      [] OTHER -> <<c>>

\* the number of characters that stand for the first k characters of s
EntityLen(s, k) ==
    Cardinality({ x \in (1..k) \X (1..5) : x[2] <= Len(Entity(s[x[1]])) })

Least(positions) == CHOOSE n \in positions : \A m \in positions : n <= m

\* where the body of the code element starts and ends in the output
BodyFirst == Least({ n \in 1..Len(out) : out[n] = "\">" }) + 1

BodyLast == Least({ n \in 1..Len(out) : out[n] = "</code></pre>" }) - 1

CodeBody == SubSeq(out, BodyFirst, BodyLast)

\* C16: the body of a rendered code block is the joined plain text of its
\* spans, each character standing for itself except '&', '<' and '>', which
\* are replaced by their entities once; no annotation or hyperlink of a span
\* leaves markup in the body, and no '<' or '>' stands in the body.
C16_CodeEscaping ==
    (IsCodePage /\ rphase = "done") =>
        /\ Len(CodeBody) = EntityLen(RawCode, Len(RawCode))
        /\ \A k \in 1..Len(RawCode) :
              SubSeq(CodeBody, EntityLen(RawCode, k - 1) + 1, EntityLen(RawCode, k))
                = Entity(RawCode[k])
        /\ "<" \notin Range(CodeBody) /\ ">" \notin Range(CodeBody)
        /\ Range(CodeBody) \cap {"strong", "a href=\"", "br"} = {}

C16_Witness ==
    /\ rphase = "done"
    /\ page.blocks = << CodeBlock(<<"js">>,
                           << TextSpan(<<"<", "s", ">", "&">>,
                                       [NoAnnotations EXCEPT !.bold = TRUE], <<>>),
                              TextSpan(<<"&", "l", "t", ";">>, NoAnnotations, <<"h">>) >>,
                           <<>>) >>
    /\ out = << "<figure class=\"code-block\"><pre><code class=\"language-", "js", "\">",
                 "&", "l", "t", ";", "s", "&", "g", "t", ";", "&", "a", "m", "p", ";",
                 "&", "a", "m", "p", ";", "l", "t", ";",
                 "</code></pre>", "</figure>" >>

-----------------------------------------------------------------------------
(* Claims about the paragraph case, checked under Spec on pages of one paragraph *)

IsRichPage == page.blocks \in RichPages

\* the rich text of the paragraph, rendered
Rendered == RichTextToHtml(page.blocks[1].rich_text)

\* the j-th group of three tokens of s is a line break
IsBreak(s, j) == 3 * j <= Len(s) /\ SubSeq(s, 3 * j - 2, 3 * j) = Br

OnlyBreaks(s) == Len(s) % 3 = 0 /\ \A j \in 1..(Len(s) \div 3) : IsBreak(s, j)

\* the number of line breaks s starts with
LeadingBreaks(s) ==
    Cardinality({ k \in 1..(Len(s) \div 3) : \A j \in 1..k : IsBreak(s, j) })

\* the number of line breaks s ends with
TrailingBreaks(s) ==
    Cardinality({ k \in 1..(Len(s) \div 3) :
                    \A j \in 1..k : SubSeq(s, Len(s) - 3 * j + 1, Len(s) - 3 * j + 3) = Br })

\* C17: a paragraph whose rendered rich text is empty or made of line breaks
\* only renders to the empty string, and the page has no fragment for it; any
\* other paragraph is the p element around its rendered rich text without its
\* leading and trailing runs of line breaks, everything between them kept.
C17_EmptyParagraphCollapse ==
    (IsRichPage /\ rphase = "done") =>
        IF OnlyBreaks(Rendered)
        THEN out = <<>>
        ELSE out = <<"<p>">>
                     \o SubSeq(Rendered, 3 * LeadingBreaks(Rendered) + 1,
                               Len(Rendered) - 3 * TrailingBreaks(Rendered))
                     \o <<"</p>">>

C17_Witness ==
    /\ rphase = "done"
    /\ page.blocks = << Paragraph(<< TextSpan(<<"\n">>, NoAnnotations, <<>>) >>) >>
    /\ Rendered = Br
    /\ out = <<>>

\* a paragraph that keeps its interior line breaks and loses the outer ones
C17_InteriorKept ==
    /\ rphase = "done"
    /\ page.blocks = << Paragraph(<< TextSpan(<<"\n", "b", "\n", "&", "\n">>,
                                              NoAnnotations, <<>>) >>) >>
    /\ out = <<"<p>", "b", "<", "br", ">", "&", "a", "m", "p", ";", "</p>">>

-----------------------------------------------------------------------------
(* Claims about the assembly of the page fragment, checked under Spec on pages
   of blocks without children *)

IsLeafPage == page.blocks \in LeafPages

\* the fragment a block without children stands for on the page
LeafFragment(b) ==
    IF b = Paragraph(Plain("C")) THEN <<"<p>", "C", "</p>">>
    ELSE IF b = Divider THEN <<"<hr>">>
    ELSE <<>>

\* the positions of the blocks of the page that have a fragment
Kept == { n \in 1..Len(page.blocks) : LeafFragment(page.blocks[n]) # <<>> }

\* C18: the page fragment is the non-empty fragments of the blocks, in the
\* order of the blocks, joined by the separator; a block with an empty fragment
\* leaves neither a fragment nor a separator: the output has one separator
\* less than it has fragments, does not start or end with the separator, and
\* has no two separators next to each other.
C18_OutputAssembly ==
    (IsLeafPage /\ rphase = "done") =>
        /\ Fragments(out) = [ j \in 1..Cardinality(Kept) |-> LeafFragment(page.blocks[Nth(Kept, j)]) ]
        /\ Count(out, Separator[1]) = IF Kept = {} THEN 0 ELSE Cardinality(Kept) - 1
        /\ out # <<>> => (Head(out) # Separator[1] /\ out[Len(out)] # Separator[1])
        /\ \A p \in 1..(Len(out) - 1) : ~(out[p] = Separator[1] /\ out[p + 1] = Separator[1])

C18_Witness ==
    /\ rphase = "done"
    /\ page.blocks = << Paragraph(Plain("C")), Skipped("table_of_contents"), Divider >>
    /\ out = <<"<p>", "C", "</p>">> \o Separator \o <<"<hr>">>

-----------------------------------------------------------------------------
(* Claims about the video case, checked under Spec on pages that start with a
   video *)

IsVideoPage == page.blocks \in VideoPages

\* the fragment of the video: the first fragment of the page when the page
\* has one fragment for each of its blocks, and nothing otherwise
VideoFragment ==
    IF Len(Fragments(out)) = Len(page.blocks) THEN Fragments(out)[1] ELSE <<>>

IsEmbed(frag) ==
    /\ Len(frag) >= 3
    /\ Head(frag) \in { "<div class=\"video-embed\"><iframe src=\"https://www.youtube.com/embed/",
                         "<div class=\"video-embed\"><iframe src=\"https://player.vimeo.com/video/" }

IsNativeVideo(frag) == frag # <<>> /\ Head(frag) = "<video controls><source src=\""

\* the locator names YouTube or Vimeo
IsHosted(url) ==
    \E host \in {YouTubeCom, YouTuBe, VimeoCom} :
        \E p \in 1..Len(url) : IsSubAt(url, host, p)

\* C19: every video block renders one element, an iframe embed when its
\* locator is a YouTube or Vimeo URL and a native video element for any other
\* locator; no video block renders to nothing.
C19_VideoAlwaysRenders ==
    (IsVideoPage /\ rphase = "done") =>
        /\ VideoFragment # <<>>
        /\ IF IsHosted(page.blocks[1].external_url)
           THEN IsEmbed(VideoFragment)
           ELSE IsNativeVideo(VideoFragment)

-----------------------------------------------------------------------------
(* More claims about downloadImage, checked under SpecResolve and FairResolve *)

\* the file f is as it was after the step
Untouched(f) == f \in DOMAIN fs' /\ fs'[f] = fs[f]

\* C21: no invocation opens, truncates or writes a file it found at its
\* path: an invocation leaves every file that exists as it is, requests a
\* resource only for a path at which it found no file, and what it later
\* writes or asks to remove is the file it has created itself; a file that
\* holds a complete download is never changed or removed again by any step.
C21_EntriesNeverMutated ==
    [][ /\ Invoked => \A f \in DOMAIN fs : Untouched(f)
        /\ (Invoked /\ dl'.pc = "waiting") => dl'.filename \notin DOMAIN fs
        /\ \A f \in DOMAIN fs :
              ~Untouched(f) =>
                  \/ f \in unlinks /\ f \notin unlinks'
                  \/ f = dl.filename /\ dl.pc = "piping" /\ fs[f].bytes # "complete"
        /\ \A f \in unlinks' \ unlinks :
              f = dl.filename /\ dl.pc \in {"waiting", "piping"}
        /\ \A f \in DOMAIN fs : fs[f].bytes = "complete" => Untouched(f) ]_vars

\* a second call has downloaded its own file next to the entry it found
C21_Witness ==
    /\ ncalls = 2
    /\ dl.pc = "resolved" /\ ~dl.skipped
    /\ \E f \in dl.had : f # dl.filename /\ f \in DOMAIN fs /\ fs[f].bytes = "complete"
    /\ fs[dl.filename].bytes = "complete"

\* the local filenames the locators of the model have under a slug
Keys(slug) == { Filename(u, slug) : u \in Locators }

\* C24: a call follows at most as many redirects as there are local paths
\* for its slug: every invocation that goes on to request a resource has
\* created a file at a path that had none, so whatever the server redirects
\* to, the URL itself, a cycle, or the same path with another query string,
\* the chain of redirects ends.
C24_RedirectTermination ==
    dl.pc # "idle" => dl.hops <= Cardinality(Keys(dl.slug))

\* a cycle of two redirects, back to the first URL, has settled
C24_Witness ==
    /\ dl.pc = "resolved"
    /\ dl.hops = 2
    /\ dl.url = dl.first
    /\ dl.skipped

\* C25: a call made after an earlier one, for a path at which no complete
\* download is stored, does not report a cache hit: it requests the resource
\* again.
C25_NoPoisoning ==
    [][ (/\ dl.pc = "idle" /\ dl'.pc # "idle"
         /\ ncalls >= 1
         /\ (dl'.filename \notin DOMAIN fs \/ fs[dl'.filename].bytes # "complete"))
          => (~dl'.skipped /\ dl'.pc = "waiting" /\ netCalls' = netCalls + 1) ]_vars

Settled == dl.pc \in {"resolved", "rejected"}

\* C26: every call in progress eventually resolves or rejects, whatever the
\* server does, and once it has done either it does not change its outcome
\* before the caller has it.
C26_SettlesOnce ==
    /\ (dl.pc \in {"waiting", "piping", "hung"}) ~> Settled
    /\ [][ Settled => (dl' = dl \/ dl'.pc = "idle") ]_vars

-----------------------------------------------------------------------------
(* Claims about the kinds of span, checked under Spec on pages of one
   paragraph of one span without annotations *)

IsKindPage == page.blocks \in KindPages

\* an "&" of the output opens one of the entities of the escaping
OpensEntity(html, p) ==
    \E e \in { <<"&", "a", "m", "p", ";">>, <<"&", "l", "t", ";">>, <<"&", "g", "t", ";">>,
                <<"&", "q", "u", "o", "t", ";">> } : IsSubAt(html, e, p)

\* C30: whatever the kind of the span, plain text, mention or inline
\* equation, the paragraph has no "<", ">" or "&" of the source text left as
\* it was: every "&" opens an entity and no "<" or ">" stands by itself.
C30_EverySpanKindEscaped ==
    (IsKindPage /\ rphase = "done") =>
        /\ "<" \notin Range(out) /\ ">" \notin Range(out)
        /\ \A p \in 1..Len(out) : out[p] = "&" => OpensEntity(out, p)

-----------------------------------------------------------------------------
(* Claims about the loop of blocksToHtml, checked under FairLoop *)

\* the activations that are on the stack before and after the step
Staying == { n \in 1..Len(stack) : n <= Len(stack') }

\* the step of an activation from f to g closes a list run: the wrapper of
\* the run is pushed
ClosesRun(f, g) == f.listType # "none" /\ g.listType = "none"

\* C23: the loop ends, and it visits every block once.  In every step of an
\* activation the index stays or goes one block further, never back and
\* never over a block; nothing is added to the fragments or to the items of
\* a run unless the index goes further; when a run of k items is closed the
\* index stands right after the last of them, k blocks after its first, on a
\* block of another type or at the end; and an activation returns only with
\* its index past the last block and no run open.
C23_LoopProgress ==
    /\ [][ /\ \A n \in Staying :
                 LET f == stack[n]
                     g == stack'[n]
                     k == Len(f.listItems) + 1
                 IN  /\ g.blocks = f.blocks
                     /\ g.i \in {f.i, f.i + 1}
                     /\ g.i <= Len(g.blocks) + 1
                     /\ g.i = f.i => (g.htmlParts = f.htmlParts /\ g.listItems = f.listItems)
                     /\ (g.i = f.i + 1 /\ ~ClosesRun(f, g) /\ g.listType # "none")
                           => (Len(g.listItems) = k /\ g.htmlParts = f.htmlParts)
                     /\ (g.i = f.i + 1 /\ g.listType = "none" /\ f.listType = "none"
                            /\ f.blocks[f.i].type \notin ListTypes)
                           => Len(g.htmlParts) \in {Len(f.htmlParts), Len(f.htmlParts) + 1}
                     /\ ClosesRun(f, g)
                           => /\ g.i = f.i + 1
                              /\ g.i - k >= 1
                              /\ \A m \in (g.i - k)..(g.i - 1) : f.blocks[m].type = f.listType
                              /\ g.i - k > 1 => f.blocks[g.i - k - 1].type # f.listType
                              /\ g.i <= Len(g.blocks) => g.blocks[g.i].type # f.listType
                              /\ Len(g.htmlParts) = Len(f.htmlParts) + 1
                              /\ Count(g.htmlParts[Len(g.htmlParts)], "<li>")
                                    >= k
            /\ (Len(stack') < Len(stack) /\ run'.fetchErrors = run.fetchErrors)
                  => (Top.i = Len(Top.blocks) + 1 /\ Top.listType = "none") ]_vars
    /\ (rphase = "running") ~> (rphase \in {"done", "failed"})

\* a page of two runs of one item with a paragraph between what they hold:
\* the run of the children reaches the end of its sequence, the run of the
\* page is followed by a paragraph
C23_Witness ==
    /\ rphase = "done"
    /\ run.fetchErrors = 0
    /\ page.blocks = << BulletedItem(ItemB, Plain("B"), TRUE), Paragraph(Plain("C")) >>
    /\ Len(Fragments(out)) = 2
    /\ Count(out, "<li>") = 5
    /\ Fragments(out)[2] = <<"<p>", "C", "</p>">>

-----------------------------------------------------------------------------
(* Claims about the sync run, checked under SpecSync *)

\* the results of the responses received, in order
Results == Concat([k \in 1..Len(listing.log) |-> listing.log[k].results])

\* C29: fetchBlockChildren and fetchPageContent return the concatenation, in
\* order, of the results of all response pages; the first request carries no
\* cursor and each later request carries the next_cursor of the previous
\* response; the loop makes one more request after every response with
\* has_more, returns at the first response without it, and makes no request
\* after that one.
C29_PaginatedFetch ==
    [][ /\ listing'.pc # "idle" =>
            /\ listing'.sent[1] = "undefined"
            /\ \A j \in 2..Len(listing'.sent) :
                    listing'.sent[j] = listing'.log[j - 1].next_cursor
            /\ \A k \in 1..(Len(listing'.log) - 1) : listing'.log[k].has_more
            /\ listing'.blocks = Results'
        /\ listing'.pc = "waiting" =>
            /\ Len(listing'.sent) = Len(listing'.log) + 1
            /\ \A k \in 1..Len(listing'.log) : listing'.log[k].has_more
        /\ listing'.pc = "returned" =>
            /\ Len(listing'.sent) = Len(listing'.log)
            /\ ~listing'.log[Len(listing'.log)].has_more
        /\ (listing.pc = "waiting" /\ Len(listing'.log) = Len(listing.log) + 1) =>
            (listing'.pc = "returned" <=> ~listing'.log[Len(listing'.log)].has_more)
        /\ (listing.pc # "returned" /\ listing'.pc = "returned") =>
            /\ Len(listing'.log) = Len(listing.log) + 1
            /\ listing.fn = "fetchPageContent" => page'.blocks = Results'
            /\ listing.fn = "fetchBlockChildren" =>
                   stack' = StackAfterChildren(Results')
        /\ listing.pc \in {"returned", "failed"} =>
            \/ listing'.sent = listing.sent /\ listing'.log = listing.log
            \/ listing'.pc = "waiting" /\ listing'.sent = <<"undefined">>
                  /\ listing'.log = <<>> ]_vars

\* the children of the synced original came in two responses of one block
C29_Witness ==
    /\ listing.pc = "returned"
    /\ listing.fn = "fetchBlockChildren"
    /\ listing.block_id = SyncedOriginal
    /\ Len(listing.log) = 2
    /\ listing.sent = <<"undefined", "cursor-2">>
    /\ listing.blocks = Children(SyncedOriginal)

\* the file of the post the loop of main is at
PostFile == GetPageProperties(Post).slug \o DotHtml

\* C22: a page's HTML file is written only after the render of all its blocks
\* has completed successfully, and holds what that render returned; while the
\* content is fetched and rendered the directory is not written; if the render
\* fails with a fatal error, no file is created or overwritten, the page is
\* not recorded, and the only step left is the one that ends the run with an
\* error status, after which nothing is written.
C22_NoPartialCommit ==
    [][ /\ (dir' # dir /\ sync.pc \notin {"index", "cleanup"}) =>
            /\ sync.pc = "render"
            /\ rphase = "done"
            /\ stack = <<>>
            /\ listing.pc # "waiting"
            /\ dir' = WriteFileSync(dir, PostFile,
                                    GeneratePostHtml(GetPageProperties(Post).title, out))
        /\ (sync.pc = "content" \/ (sync.pc = "render" /\ rphase # "done")) => dir' = dir
        /\ rphase = "failed" =>
            /\ dir' = dir
            /\ sync.pc \in {"render", "exit1"}
            /\ sync'.pc = "exit1"
            /\ sync'.posts = sync.posts
            /\ sync'.generatedFiles = sync.generatedFiles
            /\ Len(sync.posts) = sync.p - 1
        /\ sync.pc = "exit1" => (dir' = dir /\ sync' = sync) ]_vars

\* the second post of the run failed in the render of its toggle: the file
\* of the first post is written, the file the second had from an earlier run
\* is as it was, and the run has ended with an error status
C22_Witness ==
    /\ sync.pc = "exit1"
    /\ rphase = "failed"
    /\ sync.pages = <<PostB, PostA>>
    /\ sync.p = 2
    /\ Len(sync.posts) = 1
    /\ {GetPageProperties(PostB).slug \o DotHtml, AlphaHtml} \subseteq DOMAIN dir
    /\ dir[GetPageProperties(PostB).slug \o DotHtml].by = "post"
    /\ dir[AlphaHtml] = OldFile

\* the names of the directory that end in .html
HtmlFiles(d) == { f \in DOMAIN d : EndsWith(f, DotHtml) }

\* the names the run generates: index.html and one file per published post
Generated ==
    {IndexHtml} \cup { GetPageProperties(sync.pages[k]).slug \o DotHtml :
                          k \in 1..Len(sync.pages) }

\* C27: after a successful sync run the .html files of the output directory
\* are exactly index.html plus one <slug>.html per published post of the run;
\* every other .html file that was there has been deleted; no entry that is
\* not an .html file of that directory, and no cached image, is ever deleted
\* or changed; files are deleted only by the cleanup, so a run that fails
\* before the cleanup deletes nothing.
C27_OrphanCleanup ==
    [][ /\ sync'.cleaned => HtmlFiles(dir') = Generated'
        /\ \A f \in DOMAIN dir \ HtmlFiles(dir) : f \in DOMAIN dir' /\ dir'[f] = dir[f]
        /\ fs' = fs
        /\ \A f \in DOMAIN dir \ DOMAIN dir' :
               /\ sync.pc = "cleanup"
               /\ f \in HtmlFiles(dir)
               /\ f \notin Generated
        /\ sync'.deletedCount # sync.deletedCount =>
               (sync.pc \in {"readdir", "cleanup"} /\ sync'.pc = "cleanup")
        /\ sync.cleaned => dir' = dir ]_vars

\* two posts synced into a directory that held an orphan: old.html is gone,
\* the files of the two posts and the index are there, and the notes, the
\* backup, the images directory and the cached image are as they were
C27_Witness ==
    /\ sync.cleaned
    /\ sync.pc = "exit0"
    /\ sync.pages = <<PostB, PostA>>
    /\ sync.deletedCount = 1
    /\ DOMAIN dir = {ImagesDir, NotesTxt, HtmlBak, IndexHtml, AlphaHtml,
                     <<"b", "-", "b">> \o DotHtml}
    /\ dir[NotesTxt] = OldFile
    /\ dir[AlphaHtml].by = "post"
    /\ fs = CacheBefore

\* the commands of pushToProduction in their order
GitOrder == <<"status", "add", "commit", "push">>

\* git status printed nothing but white space
NoChanges == \A p \in 1..Len(sync.status) : sync.status[p] \in {" ", "\n", "\t"}

\* C28: a git command runs only when --push was given and only after every
\* post file, the index page and the orphan cleanup of the run have completed
\* without error; the commands run in the order status, add, commit, push, one
\* at a time; when the status check reports no changes none of add, commit or
\* push is executed; and a run that has ended runs no command.
C28_PushGating ==
    [][ /\ sync'.git # sync.git =>
            /\ sync.push
            /\ sync.cleaned
            /\ Len(sync.posts) = Len(sync.pages)
            /\ IndexHtml \in DOMAIN dir /\ dir[IndexHtml].by = "index"
            /\ sync.existingFiles = {}
            /\ sync.pc \notin {"exit0", "exit1"}
            /\ Len(sync'.git) = Len(sync.git) + 1
            /\ SubSeq(sync'.git, 1, Len(sync.git)) = sync.git
        /\ Len(sync'.git) <= Len(GitOrder)
        /\ sync'.git = SubSeq(GitOrder, 1, Len(sync'.git))
        /\ (sync.git # <<>> /\ NoChanges) => sync'.git = sync.git
        /\ (sync.git = <<"status">> /\ sync.pc # "exit1") =>
               (NoChanges <=> sync.pc = "exit0") ]_vars

\* a run with --push whose status check reported a change: the four commands
\* were executed in order after the cleanup
C28_Witness ==
    /\ sync.pc = "exit0"
    /\ sync.push
    /\ sync.cleaned
    /\ sync.pages = <<PostB, PostA>>
    /\ sync.deletedCount = 1
    /\ sync.git = GitOrder
    /\ ~NoChanges

====
